---- MODULE Spec2Model ----
(***************************************************************************)
(* Wire codec of bit-tune: encoding and decoding of Bitcoin peer-to-peer   *)
(* network messages (src/encode.rs and the structures of src/msg).         *)
(*                                                                         *)
(* Representation.  A byte is a number in 0..255 and a byte string is a    *)
(* sequence of bytes.  A fixed-width unsigned integer (u16, u32, u64) is   *)
(* kept at its full width as the sequence of its bytes, most significant   *)
(* byte first (a "word"), because the values of the protocol (magic        *)
(* numbers, nonces, masks) do not fit a signed 32-bit integer.             *)
(* usize counts (lengths, bytes written) are natural numbers.  A String is *)
(* the sequence of the code points of its chars.                           *)
(***************************************************************************)
EXTENDS Integers, Sequences, FiniteSets, TLC

VARIABLES
    op,     \* the operation performed last
    arg,    \* the value the operation was applied to
    wire,   \* the bytes written by the encoder, the source of the decoder
    res     \* the outcome of the operation

vars == <<op, arg, wire, res>>

RECURSIVE Pow2(_)
Pow2(n) == IF n = 0 THEN 1 ELSE 2 * Pow2(n - 1)

Min(a, b) == IF a <= b THEN a ELSE b

Reverse(s) == [i \in 1..Len(s) |-> s[Len(s) + 1 - i]]

Zeros(n) == [i \in 1..n |-> 0]

(* s without its first n elements. *)
Drop(s, n) == SubSeq(s, n + 1, Len(s))

(***************************************************************************)
(* Bitwise operations on bytes, digit by digit in base 2.                  *)
(***************************************************************************)
RECURSIVE BitOp(_, _, _, _)
BitOp(f, a, b, n) ==
    IF n = 0 THEN 0
    ELSE f[a % 2][b % 2] + 2 * BitOp(f, a \div 2, b \div 2, n - 1)

XorBit == [x \in 0..1 |-> [y \in 0..1 |-> (x + y) % 2]]
AndBit == [x \in 0..1 |-> [y \in 0..1 |-> x * y]]
OrBit  == [x \in 0..1 |-> [y \in 0..1 |-> IF x + y > 0 THEN 1 ELSE 0]]

XorNib == [a \in 0..15 |-> [b \in 0..15 |-> BitOp(XorBit, a, b, 4)]]
AndNib == [a \in 0..15 |-> [b \in 0..15 |-> BitOp(AndBit, a, b, 4)]]
OrNib  == [a \in 0..15 |-> [b \in 0..15 |-> BitOp(OrBit, a, b, 4)]]

(* a op b for numbers below 2^16, nibble by nibble through the table t. *)
Nib16(t, a, b) ==
      t[a \div 4096][b \div 4096] * 4096
    + t[(a \div 256) % 16][(b \div 256) % 16] * 256
    + t[(a \div 16) % 16][(b \div 16) % 16] * 16
    + t[a % 16][b % 16]

Xor16(a, b) == Nib16(XorNib, a, b)
And16(a, b) == Nib16(AndNib, a, b)
Or16(a, b)  == Nib16(OrNib, a, b)

(***************************************************************************)
(* SHA-256 (the sha2 crate, FIPS 180-4).  A 32-bit word of the hash is the *)
(* pair <<high 16 bits, low 16 bits>>.                                     *)
(***************************************************************************)
SHA256_K ==
    <<
       <<17034, 12184>>, <<28983, 17553>>, <<46528, 64463>>, <<59829, 56229>>,
       <<14678, 49755>>, <<23025, 4593>>, <<37439, 33444>>, <<43804, 24277>>,
       <<55303, 43672>>, <<4739, 23297>>, <<9265, 34238>>, <<21772, 32195>>,
       <<29374, 23924>>, <<32990, 45566>>, <<39900, 1703>>, <<49563, 61812>>,
       <<58523, 27073>>, <<61374, 18310>>, <<4033, 40390>>, <<9228, 41420>>,
       <<11753, 11375>>, <<19060, 33962>>, <<23728, 43484>>, <<30457, 35034>>,
       <<38974, 20818>>, <<43057, 50797>>, <<45059, 10184>>, <<48985, 32711>>,
       <<50912, 3059>>, <<54695, 37191>>, <<1738, 25425>>, <<5161, 10599>>,
       <<10167, 2693>>, <<11803, 8504>>, <<19756, 28156>>, <<21304, 3347>>,
       <<25866, 29524>>, <<30314, 2747>>, <<33218, 51502>>, <<37490, 11397>>,
       <<41663, 59553>>, <<43034, 26187>>, <<49739, 35696>>, <<51052, 20899>>,
       <<53650, 59417>>, <<54937, 1572>>, <<62478, 13701>>, <<4202, 41072>>,
       <<6564, 49430>>, <<7735, 27656>>, <<10056, 30540>>, <<13488, 48309>>,
       <<14620, 3251>>, <<20184, 43594>>, <<23452, 51791>>, <<26670, 28659>>,
       <<29839, 33518>>, <<30885, 25455>>, <<33992, 30740>>, <<36039, 520>>,
       <<37054, 65530>>, <<42064, 27883>>, <<48889, 41975>>, <<50801, 30962>> >>

SHA256_H0 ==
    <<
       <<27145, 58983>>, <<47975, 44677>>, <<15470, 62322>>, <<42319, 62778>>,
       <<20750, 21119>>, <<39685, 26764>>, <<8067, 55723>>, <<23520, 52505>> >>

(* Three-operand functions of SHA-256 on nibbles: parity, choice, majority. *)
Xor3Nib == [a \in 0..15 |-> [b \in 0..15 |-> [c \in 0..15 |->
               XorNib[XorNib[a][b]][c]]]]
ChNib  == [a \in 0..15 |-> [b \in 0..15 |-> [c \in 0..15 |->
               XorNib[AndNib[a][b]][AndNib[15 - a][c]]]]]
MajNib == [a \in 0..15 |-> [b \in 0..15 |-> [c \in 0..15 |->
               XorNib[XorNib[AndNib[a][b]][AndNib[a][c]]][AndNib[b][c]]]]]

Nib16x3(t, a, b, c) ==
      t[a \div 4096][b \div 4096][c \div 4096] * 4096
    + t[(a \div 256) % 16][(b \div 256) % 16][(c \div 256) % 16] * 256
    + t[(a \div 16) % 16][(b \div 16) % 16][(c \div 16) % 16] * 16
    + t[a % 16][b % 16][c % 16]

W32Op3(t, x, y, z) == <<Nib16x3(t, x[1], y[1], z[1]), Nib16x3(t, x[2], y[2], z[2])>>

(* Sum of a sequence of 32-bit words modulo 2^32. *)
RECURSIVE SumHalf(_, _)
SumHalf(ws, k) == IF ws = <<>> THEN 0 ELSE Head(ws)[k] + SumHalf(Tail(ws), k)

W32Add(ws) ==
    LET lo == SumHalf(ws, 2)
        hi == SumHalf(ws, 1) + lo \div 65536
    IN  <<hi % 65536, lo % 65536>>

(* Rotate and shift right by n bits, 0 < n < 32. *)
Rotr(x, n) ==
    LET y == IF n >= 16 THEN <<x[2], x[1]>> ELSE x
        m == n % 16
        p == Pow2(m)
        q == Pow2(16 - m)
    IN  IF m = 0 THEN y
        ELSE << (y[1] \div p) + (y[2] % p) * q, (y[2] \div p) + (y[1] % p) * q >>

Shr(x, n) ==
    LET p == Pow2(n % 16)
        q == Pow2(16 - (n % 16))
    IN  IF n >= 16 THEN <<0, x[1] \div p>>
        ELSE << x[1] \div p, (x[2] \div p) + (x[1] % p) * q >>

SmallSigma0(x) == W32Op3(Xor3Nib, Rotr(x, 7), Rotr(x, 18), Shr(x, 3))
SmallSigma1(x) == W32Op3(Xor3Nib, Rotr(x, 17), Rotr(x, 19), Shr(x, 10))
BigSigma0(x) == W32Op3(Xor3Nib, Rotr(x, 2), Rotr(x, 13), Rotr(x, 22))
BigSigma1(x) == W32Op3(Xor3Nib, Rotr(x, 6), Rotr(x, 11), Rotr(x, 25))
Ch(e, f, g) == W32Op3(ChNib, e, f, g)
Maj(a, b, c) == W32Op3(MajNib, a, b, c)

(* The message schedule: the 16 words of the block extended to 64. *)
RECURSIVE Schedule(_)
Schedule(w) ==
    IF Len(w) = 64 THEN w
    ELSE LET t == Len(w) + 1
         IN  Schedule(Append(w, W32Add(<< w[t - 16], SmallSigma0(w[t - 15]),
                                          w[t - 7], SmallSigma1(w[t - 2]) >>)))

RECURSIVE Rounds(_, _, _)
Rounds(v, w, t) ==
    IF t > Len(w) \/ Len(v) # 8 THEN v
    ELSE LET t1 == W32Add(<< v[8], BigSigma1(v[5]), Ch(v[5], v[6], v[7]),
                             SHA256_K[t], w[t] >>)
             t2 == W32Add(<< BigSigma0(v[1]), Maj(v[1], v[2], v[3]) >>)
         IN  Rounds(<< W32Add(<<t1, t2>>), v[1], v[2], v[3],
                       W32Add(<<v[4], t1>>), v[5], v[6], v[7] >>, w, t + 1)

(* One compression: h is the chaining value, blk the 64 bytes of the block. *)
Compress(h, blk) ==
    LET w16 == [i \in 1..16 |-> << blk[4 * i - 3] * 256 + blk[4 * i - 2],
                                   blk[4 * i - 1] * 256 + blk[4 * i] >>]
        v == Rounds(h, Schedule(w16), 1)
    IN  [i \in 1..8 |-> W32Add(<<h[i], v[i]>>)]

(* The message followed by 0x80, zeros and its length in bits (64-bit BE). *)
Sha256Pad(data) ==
    LET n == Len(data)
        z == (119 - (n % 64)) % 64
        bits == n * 8
    IN  data \o <<128>> \o Zeros(z) \o
        << 0, 0, 0, 0, bits \div 16777216, (bits \div 65536) % 256,
           (bits \div 256) % 256, bits % 256 >>

RECURSIVE Sha256Blocks(_, _)
Sha256Blocks(h, m) ==
    IF m = <<>> \/ Len(h) # 8 THEN h
    ELSE Sha256Blocks(Compress(h, SubSeq(m, 1, 64)), SubSeq(m, 65, Len(m)))

Sha256(data) ==
    LET h == Sha256Blocks(SHA256_H0, Sha256Pad(data))
    IN  [i \in 1..32 |->
            LET wd == h[(i - 1) \div 4 + 1]
                k == (i - 1) % 4
            IN  IF k = 0 THEN wd[1] \div 256
                ELSE IF k = 1 THEN wd[1] % 256
                ELSE IF k = 2 THEN wd[2] \div 256
                ELSE wd[2] % 256]

(* Sha256d convenience function: SHA-256 applied twice. *)
sha256d(data) == Sha256(Sha256(data))

(***************************************************************************)
(* Fixed-width unsigned integers as words: the bytes of the value, most    *)
(* significant first.  u8 has 1 byte, u16 2, u32 4, u64 and usize 8.       *)
(***************************************************************************)
WXor(x, y) == [i \in 1..Len(x) |-> Xor16(x[i], y[i])]
WAnd(x, y) == [i \in 1..Len(x) |-> And16(x[i], y[i])]
WOr(x, y)  == [i \in 1..Len(x) |-> Or16(x[i], y[i])]

(* x as a word of w bytes: `x as uN` truncates or zero-extends. *)
Cast(x, w) ==
    IF Len(x) >= w THEN SubSeq(x, Len(x) - w + 1, Len(x))
    ELSE Zeros(w - Len(x)) \o x

(* x << n and x >> n at the width of x, for n a multiple of 8. *)
WShl(x, n) == Cast(SubSeq(x, (n \div 8) + 1, Len(x)) \o Zeros(n \div 8), Len(x))
WShr(x, n) ==
    IF n \div 8 >= Len(x) THEN Zeros(Len(x))
    ELSE Zeros(n \div 8) \o SubSeq(x, 1, Len(x) - (n \div 8))

(* The word of w bytes with only bit n set: 1 << n. *)
Bit(n, w) == [i \in 1..w |-> IF w - i = n \div 8 THEN Pow2(n % 8) ELSE 0]

(* The natural number n as a word of w bytes, and back (values below 2^24). *)
FromNat(n, w) == [i \in 1..w |-> IF w - i > 3 THEN 0 ELSE (n \div Pow2(8 * (w - i))) % 256]

IsNat(x) == \A i \in 1..Len(x) : Len(x) - i >= 3 => x[i] = 0

RECURSIVE ToNat(_)
ToNat(x) == IF x = <<>> THEN 0 ELSE ToNat(SubSeq(x, 1, Len(x) - 1)) * 256 + x[Len(x)]

(* x <= y for words of the same width. *)
RECURSIVE WLeq(_, _)
WLeq(x, y) ==
    IF x = <<>> THEN TRUE
    ELSE IF Head(x) # Head(y) THEN Head(x) < Head(y)
    ELSE WLeq(Tail(x), Tail(y))

to_le_bytes(x) == Reverse(x)
to_be_bytes(x) == x

(***************************************************************************)
(* What an encoder does: the bytes it appends to the sink and the count it *)
(* returns; ok is FALSE when it panics before returning.                   *)
(***************************************************************************)
Enc(b, n) == [ok |-> TRUE, bytes |-> b, n |-> n]
EncPanic == [ok |-> FALSE, bytes |-> <<>>, n |-> 0]

(* e1 followed by e2 on the same sink, the counts added. *)
Cat(e1, e2) ==
    IF ~e1.ok THEN e1
    ELSE IF ~e2.ok THEN [e2 EXCEPT !.bytes = e1.bytes \o e2.bytes]
    ELSE Enc(e1.bytes \o e2.bytes, e1.n + e2.n)

(* w.write(buf) on a Vec<u8>: appends all of buf and returns its length. *)
Write(buf) == Enc(buf, Len(buf))

(***************************************************************************)
(* What a decoder does on the source s read so far up to position p: the   *)
(* value or the error it returns, or a panic, and the position reached.    *)
(***************************************************************************)
Ok(v, p)  == [tag |-> "Ok", val |-> v, pos |-> p]
Err(e, p) == [tag |-> "Err", val |-> e, pos |-> p]
Panic(m, p) == [tag |-> "Panic", val |-> m, pos |-> p]

InvalidData == [kind |-> "InvalidData"]
BadNetworkMagic(m) == [kind |-> "BadNetworkMagic", magic |-> m]
UnknownCommand(str) == [kind |-> "UnknownCommand", s |-> str]

(* The ? on a decoder's result r: a failure of r is returned as it is, and *)
(* f continues from its success.                                           *)
AndThen(r, f(_)) ==
    CHOOSE x \in { IF y.tag # "Ok" THEN y ELSE f(y) : y \in {r} } : TRUE

(* r.read_exact(&mut buf).expect("Failed to read") with buf of n bytes. *)
read_exact(s, p, n) ==
    IF Len(s) - p >= n THEN Ok(SubSeq(s, p + 1, p + n), p + n)
    ELSE Panic("Failed to read", p)

(* r.read(&mut buf) with buf of n zero bytes, on a byte slice: one call    *)
(* copies what the source still holds, at most n bytes, and the rest of    *)
(* buf keeps its zeros.                                                    *)
read(s, p, n) ==
    LET k == Min(n, Len(s) - p)
    IN  Ok(SubSeq(s, p + 1, p + k) \o Zeros(n - k), p + k)

(* The encoder writing the bytes most significant first. *)
IntEncodeBE(x) == Write(to_be_bytes(x))

(* integer_le_encode!: the bytes of the integer, least significant first. *)
IntEncode(x) == Write(to_le_bytes(x))

(* The loop of integer_le_decode!: ret ^= buf[i]; ret <<= 8, from the last *)
(* byte of buf down to the first, in a u64.                                *)
RECURSIVE LeLoop(_, _, _)
LeLoop(buf, i, ret) ==
    LET r == WXor(ret, Cast(<<buf[i]>>, 8))
    IN  IF i = 1 THEN r ELSE LeLoop(buf, i - 1, WShl(r, 8))

(* The decoder taking the bytes most significant first. *)
IntDecodeBE(s, p, w) ==
    AndThen(read_exact(s, p, w), LAMBDA buf : Ok(buf.val, buf.pos))

(* integer_le_decode! for an integer of w bytes. *)
IntDecode(s, p, w) ==
    AndThen(read_exact(s, p, w), LAMBDA buf :
        Ok(Cast(LeLoop(buf.val, w, Zeros(8)), w), buf.pos))

(* array_encode!, array_decode!: n bytes verbatim. *)
ArrayEncode(a) == Write(a)
ArrayDecode(s, p, n) == read_exact(s, p, n)

(* impl Encode for Vec<T>: the elements in order, enc encoding one. *)
RECURSIVE VecEncode(_, _)
VecEncode(enc(_), v) ==
    IF v = <<>> THEN Enc(<<>>, 0) ELSE Cat(enc(Head(v)), VecEncode(enc, Tail(v)))

(***************************************************************************)
(* Strings.  A String is the sequence of the code points of its chars;     *)
(* as_bytes() is its UTF-8 encoding and len() the length of that.          *)
(***************************************************************************)
RECURSIVE Utf8(_)
Utf8(str) ==
    IF str = <<>> THEN <<>>
    ELSE LET c == Head(str)
         IN  (IF c < 128 THEN <<c>>
              ELSE IF c < 2048 THEN <<192 + (c \div 64), 128 + (c % 64)>>
              ELSE <<224 + (c \div 4096), 128 + ((c \div 64) % 64), 128 + (c % 64)>>)
             \o Utf8(Tail(str))

(* bytes.iter().map(|x| *x as char).collect::<String>() *)
BytesAsChars(b) == b

(* The command strings of Command::to_str, as code points. *)
CommandNames ==
    <<
    [tag |-> "Version", str |-> <<118, 101, 114, 115, 105, 111, 110>>],
    [tag |-> "Verack", str |-> <<118, 101, 114, 97, 99, 107>>],
    [tag |-> "SendHeaders", str |-> <<115, 101, 110, 100, 104, 101, 97, 100, 101, 114, 115>>],
    [tag |-> "WTxIdRelay", str |-> <<119, 116, 120, 105, 100, 114, 101, 108, 97, 121>>],
    [tag |-> "Ping", str |-> <<112, 105, 110, 103>>],
    [tag |-> "Pong", str |-> <<112, 111, 110, 103>>],
    [tag |-> "Addr", str |-> <<97, 100, 100, 114>>],
    [tag |-> "GetAddr", str |-> <<103, 101, 116, 97, 100, 100, 114>>],
    [tag |-> "Inv", str |-> <<105, 110, 118>>],
    [tag |-> "GetData", str |-> <<103, 101, 116, 100, 97, 116, 97>>],
    [tag |-> "NotFound", str |-> <<110, 111, 116, 102, 111, 117, 110, 100>>],
    [tag |-> "Tx", str |-> <<116, 120>>]
    >>

(***************************************************************************)
(* VariableInteger: a u64 with the compact encoding of the protocol.       *)
(***************************************************************************)
(* The encoder with the single-byte range taken one too far (0..=0xFD). *)
VarIntEncodeFD(v) ==
    IF WLeq(v, FromNat(253, 8)) THEN IntEncode(Cast(v, 1))
    ELSE IF WLeq(v, FromNat(65535, 8))
        THEN [Cat(Write(<<253>>), IntEncode(Cast(v, 2))) EXCEPT !.n = 3]
    ELSE IF WLeq(v, <<0, 0, 0, 0, 255, 255, 255, 255>>)
        THEN [Cat(Write(<<254>>), IntEncode(Cast(v, 4))) EXCEPT !.n = 5]
    ELSE [Cat(Write(<<255>>), IntEncode(Cast(v, 8))) EXCEPT !.n = 9]

VarIntEncode(v) ==
    IF WLeq(v, FromNat(252, 8)) THEN IntEncode(Cast(v, 1))
    ELSE IF WLeq(v, FromNat(65535, 8))
        THEN [Cat(Write(<<253>>), IntEncode(Cast(v, 2))) EXCEPT !.n = 3]
    ELSE IF WLeq(v, <<0, 0, 0, 0, 255, 255, 255, 255>>)
        THEN [Cat(Write(<<254>>), IntEncode(Cast(v, 4))) EXCEPT !.n = 5]
    ELSE [Cat(Write(<<255>>), IntEncode(Cast(v, 8))) EXCEPT !.n = 9]

(* The decoder refusing a value that has a shorter encoding. *)
VarIntDecodeMinimal(s, p) ==
    AndThen(read_exact(s, p, 1), LAMBDA len_indic :
        IF len_indic.val[1] \notin {253, 254, 255}
        THEN Ok(Cast(len_indic.val, 8), len_indic.pos)
        ELSE AndThen(read_exact(s, len_indic.pos,
                                IF len_indic.val[1] = 253 THEN 2
                                ELSE IF len_indic.val[1] = 254 THEN 4
                                ELSE 8),
                     LAMBDA buf :
            IF Len(VarIntEncode(IntDecode(buf.val \o Zeros(8 - Len(buf.val)), 0, 8).val).bytes)
               < 1 + Len(buf.val)
            THEN Err(InvalidData, buf.pos)
            ELSE Ok(IntDecode(buf.val \o Zeros(8 - Len(buf.val)), 0, 8).val, buf.pos)))

VarIntDecode(s, p) ==
    AndThen(read_exact(s, p, 1), LAMBDA len_indic :
        IF len_indic.val[1] \notin {253, 254, 255}
        THEN Ok(Cast(len_indic.val, 8), len_indic.pos)
        ELSE AndThen(read_exact(s, len_indic.pos,
                                IF len_indic.val[1] = 253 THEN 2
                                ELSE IF len_indic.val[1] = 254 THEN 4
                                ELSE 8),
                     LAMBDA buf :
            Ok(IntDecode(buf.val \o Zeros(8 - Len(buf.val)), 0, 8).val, buf.pos)))

(***************************************************************************)
(* Magic: Main, Test or Unknown(u32).                                      *)
(***************************************************************************)
MagicMain == [tag |-> "Main", v |-> <<>>]
MagicTest == [tag |-> "Test", v |-> <<>>]
MagicUnknown(v) == [tag |-> "Unknown", v |-> v]

(* Magic::bytes: the u32 of the network. *)
MagicBytes(m) ==
    IF m.tag = "Main" THEN <<217, 180, 190, 249>>        \* 0xD9B4BEF9
    ELSE IF m.tag = "Test" THEN <<218, 181, 191, 250>>   \* 0xDAB5BFFA
    ELSE m.v

(* impl From<[u8; 4]> for Magic *)
MagicFrom(bytes) ==
    IF bytes = to_be_bytes(MagicBytes(MagicMain)) THEN MagicMain
    ELSE IF bytes = to_be_bytes(MagicBytes(MagicTest)) THEN MagicTest
    ELSE MagicUnknown(
            WOr(WOr(WOr(WShr(Cast(<<bytes[1]>>, 4), 24),
                        WShr(Cast(<<bytes[2]>>, 4), 16)),
                    WShr(Cast(<<bytes[3]>>, 4), 8)),
                Cast(<<bytes[4]>>, 4)))

MagicEncode(m) == IntEncode(MagicBytes(m))

(* The decoder without buf.reverse(). *)
MagicDecodeNoReverse(s, p) ==
    AndThen(read(s, p, 4), LAMBDA buf :
        AndThen(Ok(MagicFrom(buf.val), buf.pos), LAMBDA m :
            IF m.val.tag = "Unknown" THEN Err(BadNetworkMagic(m.val), m.pos)
            ELSE m))

MagicDecode(s, p) ==
    AndThen(read(s, p, 4), LAMBDA buf :
        AndThen(Ok(MagicFrom(Reverse(buf.val)), buf.pos), LAMBDA m :
            IF m.val.tag = "Unknown" THEN Err(BadNetworkMagic(m.val), m.pos)
            ELSE m))

(***************************************************************************)
(* Command: one of the known commands, or Unknown(String).                 *)
(***************************************************************************)
Cmd(tag) == [tag |-> tag, s |-> <<>>]
CmdUnknown(str) == [tag |-> "Unknown", s |-> str]

(* Command::to_str *)
CommandToStr(c) ==
    IF c.tag = "Unknown" THEN c.s
    ELSE LET i == CHOOSE i \in 1..Len(CommandNames) : CommandNames[i].tag = c.tag
         IN  CommandNames[i].str

(* Command::from_str: Ok(command), or Err(UnknownCommand(cmd)). *)
CommandFromStr(cmd, p) ==
    IF \E i \in 1..Len(CommandNames) : CommandNames[i].str = cmd
    THEN LET i == CHOOSE i \in 1..Len(CommandNames) : CommandNames[i].str = cmd
         IN  Ok(Cmd(CommandNames[i].tag), p)
    ELSE Err(UnknownCommand(cmd), p)

(* The command string in a buffer of 12 zero bytes; buf[..cmd_str.len()]   *)
(* panics when the string has more than 12 bytes.                          *)
CommandEncode(c) ==
    LET cmd_str == Utf8(CommandToStr(c))
    IN  IF Len(cmd_str) > 12 THEN EncPanic
        ELSE Write(cmd_str \o Zeros(12 - Len(cmd_str)))

(* iter().take_while(|x| **x != 0x00) *)
RECURSIVE TakeWhileNonZero(_)
TakeWhileNonZero(b) ==
    IF b = <<>> \/ Head(b) = 0 THEN <<>>
    ELSE <<Head(b)>> \o TakeWhileNonZero(Tail(b))

CommandDecode(s, p) ==
    AndThen(read(s, p, 12), LAMBDA buf :
        CommandFromStr(BytesAsChars(TakeWhileNonZero(buf.val)), buf.pos))

(***************************************************************************)
(* MessageHeader: magic, command, length (u32), checksum ([u8; 4]).        *)
(***************************************************************************)
(* MessageHeader::new, pylen a usize. *)
MessageHeaderNew(magic, command, pylen, checksum) ==
    [magic |-> magic, command |-> command, length |-> Cast(pylen, 4),
     checksum |-> checksum]

HeaderEncode(h) ==
    Cat(Cat(Cat(MagicEncode(h.magic), CommandEncode(h.command)),
            IntEncode(h.length)),
        ArrayEncode(h.checksum))

(* The match on Command::net_decode in the header: an UnknownCommand error *)
(* becomes Command::Unknown, any other error is returned.                  *)
CommandOrUnknown(c) ==
    IF c.tag = "Err" /\ c.val.kind = "UnknownCommand"
    THEN Ok(CmdUnknown(c.val.s), c.pos)
    ELSE c

HeaderDecode(s, p) ==
    AndThen(MagicDecode(s, p), LAMBDA magic :
    AndThen(CommandOrUnknown(CommandDecode(s, magic.pos)), LAMBDA command :
    AndThen(IntDecode(s, command.pos, 4), LAMBDA length :
    AndThen(ArrayDecode(s, length.pos, 4), LAMBDA checksum :
        Ok(MessageHeaderNew(magic.val, command.val, Cast(length.val, 8),
                            checksum.val),
           checksum.pos)))))

(***************************************************************************)
(* var-string: the bytes of the string with a varint length prefixed.      *)
(***************************************************************************)
StringEncode(str) ==
    Cat(VarIntEncode(FromNat(Len(Utf8(str)), 8)), Write(Utf8(str)))

StringDecode(s, p) ==
    AndThen(VarIntDecode(s, p), LAMBDA varint :
        IF ~IsNat(varint.val) THEN Panic("Failed to read", varint.pos)
        ELSE AndThen(read_exact(s, varint.pos, ToNat(varint.val)), LAMBDA buf :
                 Ok(BytesAsChars(buf.val), buf.pos)))

(***************************************************************************)
(* IP addresses (std::net): V4 with 4 octets, V6 with 16.                  *)
(***************************************************************************)
V4(o) == [v |-> 4, octets |-> o]
V6(o) == [v |-> 6, octets |-> o]

(* Ipv4Addr::to_ipv6_mapped: ::ffff:a.b.c.d *)
to_ipv6_mapped(o) == Zeros(10) \o <<255, 255>> \o o

(* Ipv6Addr::to_ipv4 of the standard library: Some(a.b.c.d) for ::a.b.c.d  *)
(* and for ::ffff:a.b.c.d, None (the empty sequence) otherwise.            *)
to_ipv4(o) ==
    IF SubSeq(o, 1, 10) = Zeros(10)
       /\ (SubSeq(o, 11, 12) = <<0, 0>> \/ SubSeq(o, 11, 12) = <<255, 255>>)
    THEN <<SubSeq(o, 13, 16)>>
    ELSE <<>>

Ipv6AddrEncode(o) == ArrayEncode(o)
Ipv6AddrDecode(s, p) == ArrayDecode(s, p, 16)
Ipv4AddrEncode(o) == Ipv6AddrEncode(to_ipv6_mapped(o))

IpAddrEncode(ip) ==
    IF ip.v = 4 THEN Ipv4AddrEncode(ip.octets) ELSE Ipv6AddrEncode(ip.octets)

IpAddrDecode(s, p) ==
    AndThen(Ipv6AddrDecode(s, p), LAMBDA ipv6 :
        IF to_ipv4(ipv6.val) # <<>> THEN Ok(V4(to_ipv4(ipv6.val)[1]), ipv6.pos)
        ELSE Ok(V6(ipv6.val), ipv6.pos))

(***************************************************************************)
(* SocketAddr: ip and port (u16); Address wraps a SocketAddr.              *)
(***************************************************************************)
SocketAddrNew(ip, port) == [ip |-> ip, port |-> port]

SocketAddrEncode(a) ==
    Cat(IpAddrEncode(a.ip), ArrayEncode(to_be_bytes(a.port)))

SocketAddrDecode(s, p) ==
    AndThen(IpAddrDecode(s, p), LAMBDA ip :
    AndThen(ArrayDecode(s, ip.pos, 2), LAMBDA portb :
        Ok(SocketAddrNew(ip.val,
                         WOr(WShr(Cast(<<portb.val[1]>>, 2), 8),
                             Cast(<<portb.val[2]>>, 2))),
           portb.pos)))

AddressEncode(a) == SocketAddrEncode(a)
AddressDecode(s, p) == SocketAddrDecode(s, p)

(* Address::me: 0.0.0.0:0 *)
AddressMe == SocketAddrNew(V4(<<0, 0, 0, 0>>), <<0, 0>>)

(***************************************************************************)
(* Service flags and ServicesList, a set of flags.                         *)
(***************************************************************************)
SERVICE_BITS == <<0, 1, 2, 3, 6, 10>>

(* Service::value with None sharing the bit of Network. *)
ServiceValueShared(f) ==
    IF f = "None" THEN Bit(SERVICE_BITS[1], 8)
    ELSE IF f = "Network" THEN Bit(SERVICE_BITS[1], 8)
    ELSE IF f = "GetUTXO" THEN Bit(SERVICE_BITS[2], 8)
    ELSE IF f = "Bloom" THEN Bit(SERVICE_BITS[3], 8)
    ELSE IF f = "Witness" THEN Bit(SERVICE_BITS[4], 8)
    ELSE IF f = "CompactFilters" THEN Bit(SERVICE_BITS[5], 8)
    ELSE Bit(SERVICE_BITS[6], 8)

(* Service::value *)
ServiceValue(f) ==
    IF f = "None" THEN Zeros(8)
    ELSE IF f = "Network" THEN Bit(SERVICE_BITS[1], 8)
    ELSE IF f = "GetUTXO" THEN Bit(SERVICE_BITS[2], 8)
    ELSE IF f = "Bloom" THEN Bit(SERVICE_BITS[3], 8)
    ELSE IF f = "Witness" THEN Bit(SERVICE_BITS[4], 8)
    ELSE IF f = "CompactFilters" THEN Bit(SERVICE_BITS[5], 8)
    ELSE Bit(SERVICE_BITS[6], 8)

(* Service::try_from_bit: the flag of a u64, or the empty sequence for     *)
(* Err(InvalidData).                                                       *)
try_from_bit(flag) ==
    IF flag = FromNat(0, 8) THEN <<"None">>
    ELSE IF flag = FromNat(1, 8) THEN <<"Network">>
    ELSE IF flag = FromNat(2, 8) THEN <<"GetUTXO">>
    ELSE IF flag = FromNat(4, 8) THEN <<"Bloom">>
    ELSE IF flag = FromNat(8, 8) THEN <<"Witness">>
    ELSE IF flag = FromNat(64, 8) THEN <<"CompactFilters">>
    ELSE IF flag = FromNat(1024, 8) THEN <<"NetworkLimited">>
    ELSE <<>>

(* ServicesList::new, ::default and add_flag. *)
ServicesListNew == {}
add_flag(list, flag) == list \cup {flag}
ServicesListDefault == add_flag(ServicesListNew, "None")

(* get_flags().iter().fold(0, |acc, num| acc ^ num.value()) *)
RECURSIVE FoldXor(_, _)
FoldXor(flags, acc) ==
    IF flags = {} THEN acc
    ELSE LET f == CHOOSE f \in flags : TRUE
         IN  FoldXor(flags \ {f}, WXor(acc, ServiceValue(f)))

ServicesListEncode(list) == IntEncode(FoldXor(list, Zeros(8)))

(* The loop of ServicesList::net_decode over SERVICE_BITS[i..]. *)
RECURSIVE ServiceBitsLoop(_, _, _, _)
ServiceBitsLoop(flags, i, services, p) ==
    IF i > Len(SERVICE_BITS) THEN Ok(services, p)
    ELSE LET m == Bit(SERVICE_BITS[i], 8)
         IN  IF WAnd(flags, m) = m
             THEN IF try_from_bit(m) = <<>> THEN Err(InvalidData, p)
                  ELSE ServiceBitsLoop(flags, i + 1,
                                       add_flag(services, try_from_bit(m)[1]), p)
             ELSE ServiceBitsLoop(flags, i + 1, services, p)

ServicesListDecode(s, p) ==
    AndThen(IntDecode(s, p, 8), LAMBDA flags :
        IF flags.val = Zeros(8) THEN Ok(ServicesListDefault, flags.pos)
        ELSE ServiceBitsLoop(flags.val, 1, ServicesListNew, flags.pos))

(***************************************************************************)
(* NetAddress: services and address.  TimestampedNetAddress: a timestamp   *)
(* (Duration) and a NetAddress.  A Duration is whole seconds (u64) and     *)
(* nanoseconds.                                                            *)
(***************************************************************************)
NetAddressNew(services, address) == [services |-> services, address |-> address]

NetAddressEncode(a) == Cat(ServicesListEncode(a.services), AddressEncode(a.address))

NetAddressDecode(s, p) ==
    AndThen(ServicesListDecode(s, p), LAMBDA services :
    AndThen(AddressDecode(s, services.pos), LAMBDA address :
        Ok(NetAddressNew(services.val, address.val), address.pos)))

Duration(secs, nanos) == [secs |-> secs, nanos |-> nanos]
from_secs(secs) == Duration(secs, 0)
as_secs(d) == d.secs

DurationEncode(d) == IntEncode(as_secs(d))

DurationDecode(s, p) ==
    AndThen(IntDecode(s, p, 8), LAMBDA secs : Ok(from_secs(secs.val), secs.pos))

TimestampedNetAddressNew(timestamp, netaddress) ==
    [timestamp |-> timestamp, netaddress |-> netaddress]

TimestampedNetAddressEncode(t) ==
    Cat(IntEncode(Cast(as_secs(t.timestamp), 4)), NetAddressEncode(t.netaddress))

TimestampedNetAddressDecode(s, p) ==
    AndThen(IntDecode(s, p, 4), LAMBDA secs :
    AndThen(NetAddressDecode(s, secs.pos), LAMBDA netaddress :
        Ok(TimestampedNetAddressNew(from_secs(Cast(secs.val, 8)), netaddress.val),
           netaddress.pos)))

(***************************************************************************)
(* VersionMessage.                                                         *)
(***************************************************************************)
VersionMessageNew(version, service, timestamp, addr_recv, addr_from, nonce, agent, start_height, relay) ==
    [version |-> version, service |-> service, timestamp |-> timestamp,
     addr_recv |-> addr_recv, addr_from |-> addr_from, nonce |-> nonce,
     agent |-> agent, start_height |-> start_height, relay |-> relay]

(* "bit-tune-v0.0.1" *)
Agent == <<98, 105, 116, 45, 116, 117, 110, 101, 45, 118, 48, 46, 48, 46, 49>>

(* The default version payload for a peer address: protocol version 70015, *)
(* no service flags, the current time, the peer as receiver and a default  *)
(* sender, a random nonce, the agent, height 0 and relay off.              *)
VersionMessageFrom(peer, now, nonce) ==
    VersionMessageNew(
        FromNat(70015, 4),
        ServicesListDefault,
        now,
        NetAddressNew(ServicesListDefault, peer),
        NetAddressNew(ServicesListDefault, AddressMe),
        nonce,
        Agent,
        FromNat(0, 4),
        FALSE)

(* impl PartialEq for VersionMessage: the timestamps compared in seconds. *)
VersionMessageEq(a, b) ==
    /\ a.version = b.version
    /\ a.service = b.service
    /\ as_secs(a.timestamp) = as_secs(b.timestamp)
    /\ a.addr_from = b.addr_from
    /\ a.addr_recv = b.addr_recv
    /\ a.nonce = b.nonce
    /\ a.agent = b.agent
    /\ a.start_height = b.start_height
    /\ a.relay = b.relay

VersionMessageEncode(v) ==
    Cat(Cat(Cat(Cat(Cat(Cat(Cat(Cat(
        IntEncode(v.version),
        ServicesListEncode(v.service)),
        DurationEncode(v.timestamp)),
        NetAddressEncode(v.addr_recv)),
        NetAddressEncode(v.addr_from)),
        IntEncode(v.nonce)),
        StringEncode(v.agent)),
        IntEncode(v.start_height)),
        IntEncode(IF v.relay THEN <<1>> ELSE <<0>>))

VersionMessageDecode(s, p) ==
    AndThen(IntDecode(s, p, 4), LAMBDA version :
    AndThen(ServicesListDecode(s, version.pos), LAMBDA services :
    AndThen(DurationDecode(s, services.pos), LAMBDA timestamp :
    AndThen(NetAddressDecode(s, timestamp.pos), LAMBDA addr_recv :
    AndThen(NetAddressDecode(s, addr_recv.pos), LAMBDA addr_from :
    AndThen(IntDecode(s, addr_from.pos, 8), LAMBDA nonce :
    AndThen(StringDecode(s, nonce.pos), LAMBDA agent :
    AndThen(IntDecode(s, agent.pos, 4), LAMBDA start_height :
    AndThen(IntDecode(s, start_height.pos, 1), LAMBDA relay :
        Ok(VersionMessageNew(version.val, services.val, timestamp.val,
                             addr_recv.val, addr_from.val, nonce.val, agent.val,
                             start_height.val, relay.val # <<0>>),
           relay.pos))))))))))

(***************************************************************************)
(* Inventory: a typed reference to a 32-byte hash.                         *)
(***************************************************************************)
InventoryIds ==
    << [kind |-> "Error",                id |-> <<0, 0, 0, 0>>],
       [kind |-> "Tx",                   id |-> <<0, 0, 0, 1>>],
       [kind |-> "Block",                id |-> <<0, 0, 0, 2>>],
       [kind |-> "FilteredBlock",        id |-> <<0, 0, 0, 3>>],
       [kind |-> "CompactBlock",         id |-> <<0, 0, 0, 4>>],
       [kind |-> "WitnessTx",            id |-> <<64, 0, 0, 1>>],
       [kind |-> "WitnessBlock",         id |-> <<64, 0, 0, 2>>],
       [kind |-> "FilteredWitnessBlock", id |-> <<64, 0, 0, 3>>] >>

(* Inventory::identifier *)
InventoryIdentifier(inv) ==
    IF inv.kind = "Unknown" THEN inv.inv_type
    ELSE LET i == CHOOSE i \in 1..Len(InventoryIds) : InventoryIds[i].kind = inv.kind
         IN  InventoryIds[i].id

(* Inventory::from_id_and_hash; the Error variant holds no hash. *)
from_id_and_hash(identifier, hash) ==
    IF \E i \in 1..Len(InventoryIds) : InventoryIds[i].id = identifier
    THEN LET i == CHOOSE i \in 1..Len(InventoryIds) : InventoryIds[i].id = identifier
         IN  [kind |-> InventoryIds[i].kind, inv_type |-> <<>>,
              hash |-> IF InventoryIds[i].kind = "Error" THEN <<>> ELSE hash]
    ELSE [kind |-> "Unknown", inv_type |-> identifier, hash |-> hash]

(* Inventory::inner *)
InventoryInner(inv) == IF inv.kind = "Error" THEN Zeros(32) ELSE inv.hash

InventoryEncode(inv) ==
    Cat(IntEncode(InventoryIdentifier(inv)), ArrayEncode(InventoryInner(inv)))

InventoryDecode(s, p) ==
    AndThen(IntDecode(s, p, 4), LAMBDA id :
    AndThen(ArrayDecode(s, id.pos, 32), LAMBDA hash :
        Ok(from_id_and_hash(id.val, hash.val), hash.pos)))

(***************************************************************************)
(* MessagePayload and Message.                                             *)
(***************************************************************************)
Version(v)       == [kind |-> "Version", v |-> v]
EmptyPayload     == [kind |-> "EmptyPayload", v |-> <<>>]
PingPong(n)      == [kind |-> "PingPong", v |-> n]
AddrList(addrs)  == [kind |-> "AddrList", v |-> addrs]
InvVect(items)   == [kind |-> "InvVect", v |-> items]
Dump(bytes)      == [kind |-> "Dump", v |-> bytes]

EmptyPayloadEncode == Enc(<<>>, 0)

PayloadEncode(pl) ==
    IF pl.kind = "Version" THEN VersionMessageEncode(pl.v)
    ELSE IF pl.kind = "PingPong" THEN IntEncode(pl.v)
    ELSE IF pl.kind = "EmptyPayload" THEN EmptyPayloadEncode
    ELSE IF pl.kind = "AddrList"
        THEN Cat(VarIntEncode(FromNat(Len(pl.v), 8)),
                 VecEncode(TimestampedNetAddressEncode, pl.v))
    ELSE IF pl.kind = "InvVect"
        THEN Cat(VarIntEncode(FromNat(Len(pl.v), 8)),
                 VecEncode(InventoryEncode, pl.v))
    ELSE VecEncode(IntEncode, [i \in 1..Len(pl.v) |-> <<pl.v[i]>>])

(* MessagePayload::len: the count the encoder returns, 0 for EmptyPayload. *)
PayloadLen(pl) ==
    IF pl.kind = "EmptyPayload" THEN 0 ELSE PayloadEncode(pl).n

(* Checksum for EmptyPayload: sha256d of nothing, precomputed. *)
EmptyPayloadChecksum == <<93, 246, 224, 226>>    \* 5D F6 E0 E2

(* Checksum for a value that encodes: the first 4 bytes of sha256d of its  *)
(* encoding.                                                               *)
Checksum(e) == SubSeq(sha256d(e.bytes), 1, 4)

(* Checksum for MessagePayload with SHA-256 applied once. *)
PayloadChecksumSha256(pl) ==
    IF pl.kind = "EmptyPayload" THEN EmptyPayloadChecksum
    ELSE SubSeq(Sha256(PayloadEncode(pl).bytes), 1, 4)

(* Checksum for MessagePayload *)
PayloadChecksum(pl) ==
    IF pl.kind = "EmptyPayload" THEN EmptyPayloadChecksum
    ELSE Checksum(PayloadEncode(pl))

(* Message::new *)
MessageNew(payload, magic, command) ==
    [header |-> MessageHeaderNew(magic, command, FromNat(PayloadLen(payload), 8),
                                 PayloadChecksum(payload)),
     payload |-> payload]

(* impl Encode for Message: asserts a zero length for an EmptyPayload. *)
MessageEncode(m) ==
    IF m.payload.kind = "EmptyPayload" /\ m.header.length # FromNat(0, 4) THEN EncPanic
    ELSE Cat(HeaderEncode(m.header), PayloadEncode(m.payload))

(* At most 100 addresses in an addr message. *)
MaxAddrs == 100

(* for _ in 0..count { v.push(Decode::net_decode(&mut r)?) } *)
RECURSIVE DecodeLoop(_, _, _, _, _)
DecodeLoop(dec(_, _), s, p, count, v) ==
    IF count = 0 THEN Ok(v, p)
    ELSE AndThen(dec(s, p), LAMBDA r :
             DecodeLoop(dec, s, r.pos, count - 1, Append(v, r.val)))

(* A count as a number of iterations: one beyond what the source can hold  *)
(* when it exceeds the numbers of the model (the loop then ends in a       *)
(* failed read).                                                           *)
Iterations(count, s) == IF IsNat(count) THEN ToNat(count) ELSE Len(s) + 1

(* The Addr arm without its assertion. *)
AddrListDecodeNoAssert(s, p) ==
    AndThen(VarIntDecode(s, p), LAMBDA count :
    AndThen(DecodeLoop(TimestampedNetAddressDecode, s, count.pos,
                       Iterations(count.val, s), <<>>), LAMBDA addrs :
        Ok(AddrList(addrs.val), addrs.pos)))

(* The Addr arm: a count, asserted to be at most 100, then that many       *)
(* timestamped addresses.                                                  *)
AddrListDecode(s, p) ==
    AndThen(VarIntDecode(s, p), LAMBDA count :
        IF ~WLeq(count.val, FromNat(MaxAddrs, 8))
        THEN Panic("assertion failed: count.inner() <= 100", count.pos)
        ELSE AndThen(DecodeLoop(TimestampedNetAddressDecode, s, count.pos,
                                ToNat(count.val), <<>>), LAMBDA addrs :
                 Ok(AddrList(addrs.val), addrs.pos)))

(* The Inv arm: a count, then that many inventory items. *)
InvVectDecode(s, p) ==
    AndThen(VarIntDecode(s, p), LAMBDA count :
    AndThen(DecodeLoop(InventoryDecode, s, count.pos,
                       Iterations(count.val, s), <<>>), LAMBDA inv_items :
        Ok(InvVect(inv_items.val), inv_items.pos)))

(* The Unknown arm with the bytes copied and left in the source. *)
DumpDecodeNoRead(length, s, p) ==
    IF Len(s) - p >= ToNat(length)
    THEN Ok(Dump(SubSeq(s, p + 1, p + ToNat(length))), p)
    ELSE Panic("Failed to read", p)

(* The Unknown arm: header.length bytes read and kept as a Dump. *)
DumpDecode(length, s, p) ==
    IF ~IsNat(length) THEN Panic("Failed to read", p)
    ELSE AndThen(read_exact(s, p, ToNat(length)), LAMBDA buf :
             Ok(Dump(buf.val), buf.pos))

(* The payload of a message, selected by the command of its header.  The   *)
(* match has no arm for GetData, NotFound and Tx.                          *)
PayloadDecode(header, s, p) ==
    IF header.command.tag = "Version"
        THEN AndThen(VersionMessageDecode(s, p), LAMBDA v :
                 Ok(Version(v.val), v.pos))
    ELSE IF header.command.tag \in {"Verack", "SendHeaders", "WTxIdRelay", "GetAddr"}
        THEN Ok(EmptyPayload, p)
    ELSE IF header.command.tag \in {"Ping", "Pong"}
        THEN AndThen(IntDecode(s, p, 8), LAMBDA n : Ok(PingPong(n.val), n.pos))
    ELSE IF header.command.tag = "Addr" THEN AddrListDecode(s, p)
    ELSE IF header.command.tag = "Inv" THEN InvVectDecode(s, p)
    ELSE IF header.command.tag = "Unknown" THEN DumpDecode(header.length, s, p)
    ELSE Panic("no arm", p)

(* impl Decode for Message: the header, then the payload. *)
MessageDecode(s, p) ==
    AndThen(HeaderDecode(s, p), LAMBDA header :
    AndThen(PayloadDecode(header.val, s, header.pos), LAMBDA payload :
        Ok([header |-> header.val, payload |-> payload.val], payload.pos)))

(***************************************************************************)
(* The values the operations are applied to.                               *)
(***************************************************************************)
(* The longest payload of an unknown command, in bytes. *)
MaxDump == 3

IPs ==
    { V4(<<0, 0, 0, 0>>),
      V4(<<10, 0, 0, 1>>),
      V6(<<32, 1, 13, 184>> \o Zeros(11) \o <<1>>),      \* 2001:db8::1
      V6(Zeros(15) \o <<1>>) }                            \* ::1

Ports == { <<0, 0>>, <<0, 80>>, <<32, 141>>, <<255, 255>> }   \* 0, 80, 8333, 65535

Addresses == { SocketAddrNew(ip, port) : ip \in IPs, port \in Ports }

Nows ==
    { Duration(FromNat(1000, 8), 0),
      Duration(<<0, 0, 0, 0, 99, 1, 2, 3>>, 500) }

Nonces == { FromNat(7, 8), <<128, 0, 0, 0, 0, 0, 1, 0>> }

MagicWires ==
    { <<249, 190, 180, 217>>, <<250, 191, 181, 218>> }
    \cup { <<a, b, c, d>> : a \in {0, 1, 217}, b \in {0, 2}, c \in {0, 3}, d \in {0, 4, 249} }

MaskWires ==
    { <<a, b, 0, 0, 0, 0, 0, c>> : a \in {0, 1, 9, 16, 79, 129}, b \in {0, 4, 8},
                                    c \in {0, 128} }

(* A string in the 12 bytes of a command field. *)
Pad(str) == str \o Zeros(12 - Len(str))

KnownFields == { Pad(CommandNames[i].str) : i \in 1..Len(CommandNames) }

UnknownFields ==
    { Pad(<<120, 121>>),                                  \* "xy"
      Pad(<<>>),
      <<97, 98, 99, 100, 101, 102, 103, 104, 105, 106, 107, 108>>,
      Pad(<<86, 101, 114, 97, 99, 107>>),                 \* "Verack"
      Pad(<<97, 98, 0, 99, 100>>),                        \* "ab", NUL, "cd"
      Pad(<<233>>),                                       \* one byte above 127
      [i \in 1..12 |-> 233] }

Fields == KnownFields \cup UnknownFields

HeaderWires ==
    { m \o f \o to_le_bytes(FromNat(n, 4)) \o EmptyPayloadChecksum :
        m \in { <<249, 190, 180, 217>>, <<250, 191, 181, 218>>, <<1, 2, 3, 4>> },
        f \in Fields, n \in {0, 5} }

AddressMe8333 == SocketAddrNew(V4(<<0, 0, 0, 0>>), <<32, 141>>)   \* 0.0.0.0:8333
Peer1 == SocketAddrNew(V4(<<10, 0, 0, 1>>), <<0, 80>>)
Entry1 == TimestampedNetAddressNew(from_secs(FromNat(1000, 8)),
                                   NetAddressNew({"Network"}, Peer1))
Entry2 == TimestampedNetAddressNew(from_secs(FromNat(1000, 8)),
                                   NetAddressNew({"Network"}, AddressMe8333))
Item1 == from_id_and_hash(<<0, 0, 0, 1>>, [i \in 1..32 |-> i])
Item2 == from_id_and_hash(<<0, 0, 0, 9>>, [i \in 1..32 |-> 255 - i])
Version1 == VersionMessageFrom(Peer1, Duration(FromNat(1000, 8), 0), FromNat(7, 8))

(* Payload bytes as a peer may send them. *)
Bodies ==
    { SubSeq(<<1, 2, 3, 4, 5, 6, 7, 8>>, 1, n) : n \in 0..MaxDump }
    \cup { <<1, 2, 3, 4, 5, 6, 7, 8>>,
           PayloadEncode(AddrList(<<Entry1>>)).bytes,
           <<101>> \o TimestampedNetAddressEncode(Entry1).bytes,
           <<253, 0, 1>> \o TimestampedNetAddressEncode(Entry1).bytes,
           <<255, 0, 0, 0, 0, 0, 0, 0, 1>> \o TimestampedNetAddressEncode(Entry1).bytes,
           PayloadEncode(InvVect(<<Item1, Item2>>)).bytes,
           PayloadEncode(Version(Version1)).bytes }

(* What follows a message in the stream: nothing, or a verack message. *)
VerackWire ==
    <<249, 190, 180, 217>> \o Pad(<<118, 101, 114, 97, 99, 107>>)
    \o <<0, 0, 0, 0>> \o EmptyPayloadChecksum

Tails == { <<>>, VerackWire }

MessageFields ==
    { Pad(CommandNames[i].str) : i \in {1, 2, 5, 7, 8, 9} } \cup UnknownFields

MessageWires ==
    { m \o f \o to_le_bytes(FromNat(n, 4)) \o c \o b \o t :
        m \in { <<249, 190, 180, 217>>, <<1, 2, 3, 4>> },
        f \in MessageFields,
        n \in (0..MaxDump) \cup {8, 31, 101},
        c \in { EmptyPayloadChecksum },
        b \in Bodies,
        t \in Tails }

Magics == { MagicMain, MagicTest, MagicUnknown(<<1, 2, 3, 4>>) }

Commands ==
    { Cmd(CommandNames[i].tag) : i \in 1..Len(CommandNames) }
    \cup { CmdUnknown(<<120, 121>>),
           CmdUnknown(<<97, 98, 99, 100, 101, 102, 103, 104, 105, 106, 107, 108>>),
           CmdUnknown(<<97, 98, 99, 100, 101, 102, 103, 104, 105, 106, 107, 108,
                        109>>) }

(* The command a payload is sent under. *)
CommandFor(pl) ==
    IF pl.kind = "Version" THEN Cmd("Version")
    ELSE IF pl.kind = "PingPong" THEN Cmd("Ping")
    ELSE IF pl.kind = "AddrList" THEN Cmd("Addr")
    ELSE IF pl.kind = "InvVect" THEN Cmd("Inv")
    ELSE IF pl.kind = "Dump" THEN CmdUnknown(<<120, 121>>)
    ELSE Cmd("Verack")

Payloads ==
    << Version(Version1),
       PingPong(FromNat(7, 8)),
       AddrList(<<>>),
       AddrList(<<Entry1>>),
       InvVect(<<Item1, Item2>>),
       Dump(<<>>) >>
    \o [n \in 1..MaxDump |-> Dump(SubSeq(<<1, 2, 3, 4, 5, 6, 7, 8>>, 1, n))]
    \o << AddrList(<<Entry2>>) >>

(* The arguments of Message::new: an EmptyPayload under every magic and    *)
(* command, the other payloads under their own command and under verack.   *)
NewArgs(pl) ==
    IF pl.kind = "EmptyPayload"
    THEN { [magic |-> m, command |-> c] : m \in Magics, c \in Commands }
    ELSE { [magic |-> m, command |-> c] :
             m \in {MagicMain, MagicTest},
             c \in {CommandFor(pl), Cmd("Verack")}
                   \cup (IF pl.kind = "PingPong" THEN {Cmd("Pong")} ELSE {}) }

(***************************************************************************)
(* The operations.  A call of the codec works on its own source or sink    *)
(* and keeps nothing between calls: every operation starts from the idle   *)
(* state, and Return ends it.                                              *)
(***************************************************************************)
Init ==
    /\ op = "idle"
    /\ arg = <<>>
    /\ wire = <<>>
    /\ res = <<>>

Return ==
    /\ op # "idle"
    /\ op' = "idle"
    /\ arg' = <<>>
    /\ wire' = <<>>
    /\ res' = <<>>

(* tests::version_encode_decode for a peer address: build, encode, decode. *)
VersionRoundTrip ==
    /\ op = "idle"
    /\ \E peer \in Addresses, now \in Nows, nonce \in Nonces :
        LET vm == VersionMessageFrom(peer, now, nonce)
            enc == VersionMessageEncode(vm)
        IN  /\ op' = "VersionRoundTrip"
            /\ arg' = vm
            /\ wire' = enc.bytes
            /\ res' = VersionMessageDecode(enc.bytes, 0)

(* SocketAddr: net_encode, then net_decode of the bytes written. *)
SocketAddrRoundTrip ==
    /\ op = "idle"
    /\ \E a \in Addresses :
        LET enc == SocketAddrEncode(a)
        IN  /\ op' = "SocketAddrRoundTrip"
            /\ arg' = a
            /\ wire' = enc.bytes
            /\ res' = SocketAddrDecode(enc.bytes, 0)

(* Magic::net_decode of 4 bytes of the wire. *)
MagicDecodeOp ==
    /\ op = "idle"
    /\ \E w \in MagicWires :
        /\ op' = "MagicDecode"
        /\ arg' = <<>>
        /\ wire' = w
        /\ res' = MagicDecode(w, 0)

(* ServicesList::net_decode of an 8-byte mask. *)
ServicesListDecodeOp ==
    /\ op = "idle"
    /\ \E w \in MaskWires :
        /\ op' = "ServicesListDecode"
        /\ arg' = <<>>
        /\ wire' = w
        /\ res' = ServicesListDecode(w, 0)

(* MessageHeader::net_decode of 24 bytes. *)
HeaderDecodeOp ==
    /\ op = "idle"
    /\ \E w \in HeaderWires :
        /\ op' = "HeaderDecode"
        /\ arg' = <<>>
        /\ wire' = w
        /\ res' = HeaderDecode(w, 0)

(* The command of the decoded header encoded again. *)
CommandReencode ==
    /\ op = "HeaderDecode"
    /\ res.tag = "Ok"
    /\ op' = "CommandReencode"
    /\ arg' = res.val.command
    /\ wire' = wire
    /\ res' = CommandEncode(res.val.command)

(* Message::net_decode from the start of a stream. *)
MessageDecodeOp ==
    /\ op = "idle"
    /\ \E w \in MessageWires :
        /\ op' = "MessageDecode"
        /\ arg' = 0
        /\ wire' = w
        /\ res' = MessageDecode(w, 0)

(* Message::net_decode again on the same stream, after a decoded message. *)
MessageDecodeNext ==
    /\ op = "MessageDecode"
    /\ res.tag = "Ok"
    /\ res.pos < Len(wire)
    /\ op' = "MessageDecodeNext"
    /\ arg' = res.pos
    /\ wire' = wire
    /\ res' = MessageDecode(wire, res.pos)

Next ==
    \/ VersionRoundTrip
    \/ SocketAddrRoundTrip
    \/ MagicDecodeOp
    \/ ServicesListDecodeOp
    \/ HeaderDecodeOp
    \/ CommandReencode
    \/ MessageDecodeOp
    \/ MessageDecodeNext
    \/ Return

Spec == Init /\ [][Next]_vars

(***************************************************************************)
(* Message assembly: Message::new, net_encode of the message, net_decode   *)
(* of the bytes written.                                                   *)
(***************************************************************************)
MessageNewOp ==
    /\ op = "idle"
    /\ \E i \in 0..Len(Payloads) :
        LET pl == IF i = 0 THEN EmptyPayload ELSE Payloads[i]
        IN  \E a \in NewArgs(pl) :
                /\ op' = "MessageNew"
                /\ arg' = [payload |-> pl, magic |-> a.magic, command |-> a.command]
                /\ wire' = <<>>
                /\ res' = MessageNew(pl, a.magic, a.command)

MessageEncodeOp ==
    /\ op = "MessageNew"
    /\ op' = "MessageEncode"
    /\ arg' = res
    /\ wire' = MessageEncode(res).bytes
    /\ res' = MessageEncode(res)

MessageDecodeEncoded ==
    /\ op = "MessageEncode"
    /\ res.ok
    /\ op' = "MessageDecodeEncoded"
    /\ arg' = arg
    /\ wire' = wire
    /\ res' = MessageDecode(wire, 0)

NextMsg ==
    \/ MessageNewOp
    \/ MessageEncodeOp
    \/ MessageDecodeEncoded
    \/ Return

SpecMsg == Init /\ [][NextMsg]_vars

(***************************************************************************)
(* The decoders by the name of the type they decode, and sources that end  *)
(* before the value does.                                                  *)
(***************************************************************************)
Decoders ==
    {"u8", "u16", "u32", "u64", "[u8; 2]", "[u8; 4]", "[u8; 16]", "[u8; 32]",
     "VariableInteger", "Magic", "Command", "MessageHeader", "Message"}

(* Decode::net_decode::<T> at position p of the source s. *)
DecodeAs(T, s, p) ==
    IF T = "u8" THEN IntDecode(s, p, 1)
    ELSE IF T = "u16" THEN IntDecode(s, p, 2)
    ELSE IF T = "u32" THEN IntDecode(s, p, 4)
    ELSE IF T = "u64" THEN IntDecode(s, p, 8)
    ELSE IF T = "[u8; 2]" THEN ArrayDecode(s, p, 2)
    ELSE IF T = "[u8; 4]" THEN ArrayDecode(s, p, 4)
    ELSE IF T = "[u8; 16]" THEN ArrayDecode(s, p, 16)
    ELSE IF T = "[u8; 32]" THEN ArrayDecode(s, p, 32)
    ELSE IF T = "VariableInteger" THEN VarIntDecode(s, p)
    ELSE IF T = "Magic" THEN MagicDecode(s, p)
    ELSE IF T = "Command" THEN CommandDecode(s, p)
    ELSE IF T = "MessageHeader" THEN HeaderDecode(s, p)
    ELSE MessageDecode(s, p)

(* A ping with the nonce 7 and an unknown command with 3 payload bytes. *)
PingWire ==
    <<249, 190, 180, 217>> \o Pad(<<112, 105, 110, 103>>)
    \o <<8, 0, 0, 0>> \o <<140, 130, 12, 128>> \o <<7, 0, 0, 0, 0, 0, 0, 0>>

UnknownWire ==
    <<249, 190, 180, 217>> \o Pad(<<120, 121>>)
    \o <<3, 0, 0, 0>> \o <<25, 198, 25, 126>> \o <<1, 2, 3>>

(* Complete encodings of a value of each type. *)
FullWires(T) ==
    IF T = "u8" THEN { <<7>> }
    ELSE IF T = "u16" THEN { <<1, 2>> }
    ELSE IF T = "u32" THEN { <<1, 2, 3, 4>> }
    ELSE IF T = "u64" THEN { <<1, 2, 3, 4, 5, 6, 7, 8>> }
    ELSE IF T = "[u8; 2]" THEN { <<1, 2>> }
    ELSE IF T = "[u8; 4]" THEN { <<1, 2, 3, 4>> }
    ELSE IF T = "[u8; 16]" THEN { [i \in 1..16 |-> i] }
    ELSE IF T = "[u8; 32]" THEN { [i \in 1..32 |-> i] }
    ELSE IF T = "VariableInteger"
        THEN { <<5>>, <<253, 1, 1>>, <<254, 1, 0, 1, 0>>,
               <<255, 1, 0, 0, 0, 1, 0, 0, 0>> }
    ELSE IF T = "Magic" THEN { <<249, 190, 180, 217>>, <<250, 191, 181, 218>> }
    ELSE IF T = "Command"
        THEN { Pad(<<118, 101, 114, 97, 99, 107>>),
               Pad(<<118, 101, 114, 115, 105, 111, 110>>),
               <<97, 98, 99, 100, 101, 102, 103, 104, 105, 106, 107, 108>> }
    ELSE IF T = "MessageHeader" THEN { VerackWire, SubSeq(PingWire, 1, 24) }
    ELSE { VerackWire, PingWire, UnknownWire }

(* The sources that hold fewer bytes than a value of the type needs. *)
ShortWires(T) ==
    UNION { { SubSeq(f, 1, k) : k \in 0..(Len(f) - 1) } : f \in FullWires(T) }

(* u64 values around the limits of the varint forms. *)
VarIntValues ==
    { FromNat(n, 8) : n \in {0, 1, 5, 252, 253, 254, 255, 256, 65535, 65536, 70015} }
    \cup { <<0, 0, 0, 0, 255, 255, 255, 255>>, <<0, 0, 0, 1, 0, 0, 0, 0>>,
            <<0, 0, 0, 0, 1, 2, 3, 4>>, <<1, 2, 3, 4, 5, 6, 7, 8>>,
            <<128, 0, 0, 0, 0, 0, 0, 0>>, <<255, 255, 255, 255, 255, 255, 255, 255>> }

(* A u64 that fits w bytes. *)
Fits(v, w) == \A i \in 1..(8 - w) : v[i] = 0

(* The markers of the long varint forms and the width each announces. *)
Markers == { [byte |-> 253, width |-> 2], [byte |-> 254, width |-> 4],
             [byte |-> 255, width |-> 8] }

(* Integers of 1, 2, 4 and 8 bytes and arrays of 2, 4, 16 and 32 bytes. *)
IntegerWidths == {1, 2, 4, 8}
ArrayLengths == {2, 4, 16, 32}
Primitives ==
    UNION { { [kind |-> "int", val |-> [i \in 1..w |-> 0]],
              [kind |-> "int", val |-> [i \in 1..w |-> 255]],
              [kind |-> "int", val |-> [i \in 1..w |-> i]],
              [kind |-> "int", val |-> [i \in 1..w |-> IF i = 1 THEN 128 ELSE 0]],
              [kind |-> "int", val |-> [i \in 1..w |-> IF i = w THEN 1 ELSE 0]] }
            : w \in IntegerWidths }
    \cup UNION { { [kind |-> "array", val |-> [i \in 1..n |-> 0]],
                   [kind |-> "array", val |-> [i \in 1..n |-> i]],
                   [kind |-> "array", val |-> [i \in 1..n |-> 256 - i]] }
                 : n \in ArrayLengths }

(* IPv4 addresses, IPv6 addresses that are not IPv4-mapped (::1 and        *)
(* ::10.0.0.1 among them) and one that is.                                 *)
IpAddrs ==
    IPs \cup { V4(<<255, 255, 255, 255>>),
               V4(<<192, 168, 1, 20>>),
               V6(Zeros(16)),                                       \* ::
               V6(Zeros(12) \o <<10, 0, 0, 1>>),                    \* ::10.0.0.1
               V6(Zeros(10) \o <<255, 255, 10, 0, 0, 1>>),          \* ::ffff:10.0.0.1
               V6(Zeros(9) \o <<1, 255, 255, 10, 0, 0, 1>>),        \* ::1:ffff:a00:1
               V6(<<254, 128>> \o Zeros(13) \o <<1>>),              \* fe80::1
               V6(<<255, 255, 255, 255, 255, 255, 255, 255, 255, 255, 255, 255, 255, 255, 255, 255>>) }

(* enum Service, in the order of its declaration. *)
ServiceOrder ==
    <<"None", "Network", "GetUTXO", "Bloom", "Witness", "CompactFilters", "NetworkLimited">>

(* The number of add_flag calls taken in every order and with repeats. *)
MaxFlagCalls == 2

RECURSIVE CallSeqs(_)
CallSeqs(n) ==
    IF n = 0 THEN { <<>> }
    ELSE CallSeqs(n - 1)
         \cup { Append(c, ServiceOrder[i]) :
                  c \in { x \in CallSeqs(n - 1) : Len(x) = n - 1 },
                  i \in 1..Len(ServiceOrder) }

(* The sequences of add_flag calls: the short ones in every order, and one *)
(* for every set of services.                                              *)
FlagCalls ==
    CallSeqs(MaxFlagCalls)
    \cup { SelectSeq(ServiceOrder, LAMBDA f : f \in S) :
           S \in SUBSET { ServiceOrder[i] : i \in 1..Len(ServiceOrder) } }

(* Headers: every magic, every command (Unknown of 2, 12 and 13 chars and   *)
(* of one char outside ASCII among them), lengths and checksums.            *)
HeaderCommands == Commands \cup { CmdUnknown(<<>>), CmdUnknown(<<233>>) }
HeaderLengths == { <<0, 0, 0, 0>>, <<0, 0, 1, 2>>, <<255, 255, 255, 255>> }
HeaderChecksums == { <<93, 246, 224, 226>>, <<0, 0, 0, 0>> }

(***************************************************************************)
(* Inputs of the round trips of headers and messages.                      *)
(***************************************************************************)
(* Commands of a header built by MessageHeader::new: those of the encoder  *)
(* and an Unknown holding the name of a known command.                     *)
RoundTripCommands == HeaderCommands \cup { CmdUnknown(CommandNames[1].str) }

(* Inventory identifiers (u32): the 8 of Inventory::identifier and others, *)
(* and 32-byte hashes.                                                     *)
InvIdentifiers ==
    { InventoryIds[i].id : i \in 1..Len(InventoryIds) }
    \cup { <<0, 0, 0, 5>>, <<1, 0, 0, 0>>, <<64, 0, 0, 0>>, <<64, 0, 0, 4>>,
           <<0, 0, 1, 0>>, <<255, 255, 255, 255>> }
InvHashes ==
    { [i \in 1..32 |-> 0], [i \in 1..32 |-> i], [i \in 1..32 |-> 256 - i] }

(* Complete headers, and the positions at which a source may end a read.   *)
SplitHeaders == { VerackWire, SubSeq(PingWire, 1, 24), SubSeq(UnknownWire, 1, 24) }
SplitCuts == SUBSET {2, 4, 10, 16, 20}

(* Strings, as code points: empty, ASCII, and with chars outside ASCII     *)
(* (e acute, the euro sign, U+0080).                                       *)
Strings ==
    { <<>>, <<97>>, Agent, [i \in 1..40 |-> 96 + (i % 26)],
      <<233>>, <<99, 97, 102, 233>>, <<8364>>, <<127>>, <<128>> }

(* Timestamps in whole seconds, below and from 2^32, and net addresses.    *)
TimestampSecs ==
    { FromNat(0, 8), FromNat(1000, 8), <<0, 0, 0, 0, 255, 255, 255, 255>>,
      <<0, 0, 0, 1, 0, 0, 0, 0>>, <<0, 0, 0, 1, 0, 0, 0, 5>>,
      <<128, 0, 0, 0, 96, 0, 0, 1>> }
NetAddresses ==
    { NetAddressNew(s, a) :
        s \in { {"Network"}, {"Network", "Witness"}, ServicesListDefault },
        a \in { Peer1, AddressMe, AddressMe8333,
                SocketAddrNew(V6(<<32, 1, 13, 184>> \o Zeros(11) \o <<1>>), <<0, 80>>) } }

(***************************************************************************)
(* The codec of the single types: a value encoded and the bytes written    *)
(* decoded, and decoders applied to bytes as a peer may send them.         *)
(***************************************************************************)
(* Decode::net_decode::<T> on a source that ends early. *)
ShortDecode ==
    /\ op = "idle"
    /\ \E T \in Decoders :
        \E w \in ShortWires(T) :
            /\ op' = "ShortDecode"
            /\ arg' = T
            /\ wire' = w
            /\ res' = DecodeAs(T, w, 0)

(* VariableInteger(v): net_encode, then net_decode of the bytes written. *)
VarIntRoundTrip ==
    /\ op = "idle"
    /\ \E v \in VarIntValues :
        /\ op' = "VarIntRoundTrip"
        /\ arg' = v
        /\ wire' = VarIntEncode(v).bytes
        /\ res' = [enc |-> VarIntEncode(v),
                   dec |-> VarIntDecode(VarIntEncode(v).bytes, 0)]

(* net_encode of the value a decode returned; nothing is written when it  *)
(* returned no value.                                                      *)
VarIntReencode(d) == IF d.tag = "Ok" THEN VarIntEncode(d.val) ELSE Write(<<>>)

(* VariableInteger::net_decode of a marker and the value in the width it   *)
(* announces, then net_encode of the value decoded.                        *)
VarIntDecodeOp ==
    /\ op = "idle"
    /\ \E m \in Markers :
        \E v \in { x \in VarIntValues : Fits(x, m.width) } :
            /\ op' = "VarIntDecode"
            /\ arg' = v
            /\ wire' = <<m.byte>> \o Reverse(Cast(v, m.width))
            /\ res' = [dec |-> VarIntDecode(<<m.byte>> \o Reverse(Cast(v, m.width)), 0),
                       enc |-> VarIntReencode(
                                 VarIntDecode(<<m.byte>> \o Reverse(Cast(v, m.width)), 0))]

(* net_encode of an integer or of a byte array, then net_decode of the     *)
(* bytes written as the same type.                                         *)
PrimitiveRoundTrip ==
    /\ op = "idle"
    /\ \E x \in Primitives :
        /\ op' = "PrimitiveRoundTrip"
        /\ arg' = x
        /\ wire' = (IF x.kind = "int" THEN IntEncode(x.val) ELSE ArrayEncode(x.val)).bytes
        /\ res' = IF x.kind = "int"
                  THEN [enc |-> IntEncode(x.val),
                        dec |-> IntDecode(IntEncode(x.val).bytes, 0, Len(x.val))]
                  ELSE [enc |-> ArrayEncode(x.val),
                        dec |-> ArrayDecode(ArrayEncode(x.val).bytes, 0, Len(x.val))]

(* Magic::net_encode, then net_decode of the bytes written. *)
MagicRoundTrip ==
    /\ op = "idle"
    /\ \E m \in Magics :
        /\ op' = "MagicRoundTrip"
        /\ arg' = m
        /\ wire' = MagicEncode(m).bytes
        /\ res' = [enc |-> MagicEncode(m), dec |-> MagicDecode(MagicEncode(m).bytes, 0)]

(* IpAddr::net_encode, then IpAddr::net_decode of the 16 bytes written. *)
IpAddrRoundTrip ==
    /\ op = "idle"
    /\ \E ip \in IpAddrs :
        /\ op' = "IpAddrRoundTrip"
        /\ arg' = ip
        /\ wire' = IpAddrEncode(ip).bytes
        /\ res' = [enc |-> IpAddrEncode(ip), dec |-> IpAddrDecode(IpAddrEncode(ip).bytes, 0)]

(* ServicesList::new() followed by the add_flag calls of the sequence. *)
RECURSIVE AddFlags(_, _)
AddFlags(list, calls) ==
    IF calls = <<>> THEN list ELSE AddFlags(add_flag(list, Head(calls)), Tail(calls))

(* ServicesList::net_encode of a list built by new() and add_flag. *)
ServicesListEncodeOp ==
    /\ op = "idle"
    /\ \E calls \in FlagCalls :
        /\ op' = "ServicesListEncode"
        /\ arg' = calls
        /\ wire' = ServicesListEncode(AddFlags(ServicesListNew, calls)).bytes
        /\ res' = ServicesListEncode(AddFlags(ServicesListNew, calls))

(* MessageHeader::net_encode of a header with the four fields given. *)
HeaderEncodeOp ==
    /\ op = "idle"
    /\ \E magic \in Magics, command \in HeaderCommands,
          length \in HeaderLengths, checksum \in HeaderChecksums :
        /\ op' = "HeaderEncode"
        /\ arg' = [magic |-> magic, command |-> command, length |-> length,
                   checksum |-> checksum]
        /\ wire' = HeaderEncode([magic |-> magic, command |-> command,
                                 length |-> length, checksum |-> checksum]).bytes
        /\ res' = HeaderEncode([magic |-> magic, command |-> command,
                                length |-> length, checksum |-> checksum])

(* MessageHeader::new, net_encode, then net_decode of the bytes written    *)
(* (nothing is decoded when the encoder panicked).                         *)
HeaderRoundTrip ==
    /\ op = "idle"
    /\ \E magic \in {MagicMain, MagicTest}, command \in RoundTripCommands,
          length \in HeaderLengths, checksum \in HeaderChecksums :
        /\ op' = "HeaderRoundTrip"
        /\ arg' = MessageHeaderNew(magic, command, Cast(length, 8), checksum)
        /\ wire' = HeaderEncode(MessageHeaderNew(magic, command, Cast(length, 8),
                                                 checksum)).bytes
        /\ res' = [enc |-> HeaderEncode(MessageHeaderNew(magic, command,
                                                         Cast(length, 8), checksum)),
                   dec |-> HeaderDecode(HeaderEncode(MessageHeaderNew(magic, command,
                                            Cast(length, 8), checksum)).bytes, 0)]

(* net_encode of the item a decode returned; nothing is written when it     *)
(* returned no item.                                                       *)
InventoryReencode(d) == IF d.tag = "Ok" THEN InventoryEncode(d.val) ELSE Write(<<>>)

(* Inventory::net_decode of 36 bytes, an identifier and a hash, then      *)
(* net_encode of the item decoded.                                         *)
InventoryDecodeOp ==
    /\ op = "idle"
    /\ \E id \in InvIdentifiers, hash \in InvHashes :
        /\ op' = "InventoryDecode"
        /\ arg' = [id |-> id, hash |-> hash]
        /\ wire' = Reverse(id) \o hash
        /\ res' = [dec |-> InventoryDecode(Reverse(id) \o hash, 0),
                   enc |-> InventoryReencode(InventoryDecode(Reverse(id) \o hash, 0))]

(***************************************************************************)
(* A source that ends each read at the next of the positions in cuts (a    *)
(* TcpStream handing over the segments as they arrive).  read_exact calls  *)
(* read until its buffer is full, so it is the read_exact of a slice.      *)
(***************************************************************************)
(* The position at which a read started at p ends at the latest. *)
NextCut(s, p, cuts) ==
    IF \E c \in cuts : c > p /\ c < Len(s)
    THEN CHOOSE c \in cuts : c > p /\ c < Len(s) /\ \A d \in cuts : d > p => c <= d
    ELSE Len(s)

(* r.read(&mut buf): one call, at most n bytes and at most up to the cut. *)
readSplit(s, p, n, cuts) ==
    Ok(SubSeq(s, p + 1, p + Min(n, NextCut(s, p, cuts) - p))
         \o Zeros(n - Min(n, NextCut(s, p, cuts) - p)),
       p + Min(n, NextCut(s, p, cuts) - p))

(* impl Decode for Magic on such a source. *)
MagicDecodeSplit(s, p, cuts) ==
    AndThen(readSplit(s, p, 4, cuts), LAMBDA buf :
        AndThen(Ok(MagicFrom(Reverse(buf.val)), buf.pos), LAMBDA m :
            IF m.val.tag = "Unknown" THEN Err(BadNetworkMagic(m.val), m.pos)
            ELSE m))

(* impl Decode for Command on such a source. *)
CommandDecodeSplit(s, p, cuts) ==
    AndThen(readSplit(s, p, 12, cuts), LAMBDA buf :
        CommandFromStr(BytesAsChars(TakeWhileNonZero(buf.val)), buf.pos))

(* impl Decode for MessageHeader on such a source. *)
HeaderDecodeSplit(s, p, cuts) ==
    AndThen(MagicDecodeSplit(s, p, cuts), LAMBDA magic :
    AndThen(CommandOrUnknown(CommandDecodeSplit(s, magic.pos, cuts)), LAMBDA command :
    AndThen(IntDecode(s, command.pos, 4), LAMBDA length :
    AndThen(ArrayDecode(s, length.pos, 4), LAMBDA checksum :
        Ok(MessageHeaderNew(magic.val, command.val, Cast(length.val, 8),
                            checksum.val),
           checksum.pos)))))

(* MessageHeader::net_decode of the same 24 bytes from a source that hands *)
(* them over in one read and from one that ends its reads at the cuts.     *)
HeaderDecodeSplitOp ==
    /\ op = "idle"
    /\ \E w \in SplitHeaders, cuts \in SplitCuts :
        /\ op' = "HeaderDecodeSplit"
        /\ arg' = cuts
        /\ wire' = w
        /\ res' = [whole |-> HeaderDecode(w, 0), split |-> HeaderDecodeSplit(w, 0, cuts)]

(* ServicesList::net_encode of a list built by new() and add_flag, then    *)
(* ServicesList::net_decode of the 8 bytes written.                        *)
ServicesListRoundTrip ==
    /\ op = "idle"
    /\ \E calls \in FlagCalls :
        /\ op' = "ServicesListRoundTrip"
        /\ arg' = AddFlags(ServicesListNew, calls)
        /\ wire' = ServicesListEncode(AddFlags(ServicesListNew, calls)).bytes
        /\ res' = ServicesListDecode(
                      ServicesListEncode(AddFlags(ServicesListNew, calls)).bytes, 0)

(* String::net_encode, then String::net_decode of the bytes written. *)
StringRoundTrip ==
    /\ op = "idle"
    /\ \E str \in Strings :
        /\ op' = "StringRoundTrip"
        /\ arg' = str
        /\ wire' = StringEncode(str).bytes
        /\ res' = [enc |-> StringEncode(str), dec |-> StringDecode(StringEncode(str).bytes, 0)]

(* TimestampedNetAddress::net_encode, then net_decode of the bytes written. *)
TimestampedRoundTrip ==
    /\ op = "idle"
    /\ \E secs \in TimestampSecs, na \in NetAddresses :
        /\ op' = "TimestampedRoundTrip"
        /\ arg' = TimestampedNetAddressNew(from_secs(secs), na)
        /\ wire' = TimestampedNetAddressEncode(
                       TimestampedNetAddressNew(from_secs(secs), na)).bytes
        /\ res' = [enc |-> TimestampedNetAddressEncode(
                              TimestampedNetAddressNew(from_secs(secs), na)),
                   dec |-> TimestampedNetAddressDecode(
                              TimestampedNetAddressEncode(
                                  TimestampedNetAddressNew(from_secs(secs), na)).bytes, 0)]


NextCodec ==
    \/ ShortDecode
    \/ VarIntRoundTrip
    \/ VarIntDecodeOp
    \/ PrimitiveRoundTrip
    \/ MagicRoundTrip
    \/ IpAddrRoundTrip
    \/ ServicesListEncodeOp
    \/ HeaderEncodeOp
    \/ HeaderRoundTrip
    \/ InventoryDecodeOp
    \/ HeaderDecodeSplitOp
    \/ ServicesListRoundTrip
    \/ StringRoundTrip
    \/ TimestampedRoundTrip
    \/ Return

SpecCodec == Init /\ [][NextCodec]_vars

(***************************************************************************)
(* Peer::get (net/peer.rs).  A call holds its arguments and environment in *)
(* arg (min, the seed list, the seeds that accept a connection, the number *)
(* of CPUs), the untested peers in wire and the peers collected in res;    *)
(* res.tag is "Running" while the loop runs, then "Ok", "Err" or "Panic".  *)
(***************************************************************************)
MaxSeeds == 4
MaxMin == 3

(* Seed entries: 4 address bytes and the port, most significant byte first. *)
Seed(i) == <<10, 0, 0, i, 32, 141>>

(* impl From<[u8; 6]> for UntestedPeer *)
UntestedPeerFrom(seed) == [addr |-> SubSeq(seed, 1, 4), port |-> SubSeq(seed, 5, 6)]

(* Error::FailedToConnect *)
FailedToConnect == [kind |-> "FailedToConnect"]

(* num_cpus::get() on the machines considered. *)
NumCpus == {1, 2, 4}

(* The condition of the while loop. *)
PeerLoopCondition(peers, ut_peers, min) == Len(peers) < min \/ Len(ut_peers) < min

(* par_iter().take(n).map(test_conn).filter().collect(): the peers among   *)
(* the first n untested ones that accept a connection, in order.           *)
WorkingPeers(ut_peers, n, accepting) ==
    SelectSeq(SubSeq(ut_peers, 1, Min(n, Len(ut_peers))), LAMBDA x : x \in accepting)

(* The call: the untested peers are built from the seed list. *)
PeerGetCall ==
    /\ op = "idle"
    /\ \E min \in 0..MaxMin, n \in 0..MaxSeeds, cpus \in NumCpus :
        \E accepting \in SUBSET { UntestedPeerFrom(Seed(i)) : i \in 1..n } :
            /\ op' = "PeerGet"
            /\ arg' = [min |-> min, peerlist |-> [i \in 1..n |-> Seed(i)],
                       accepting |-> accepting, cpus |-> cpus]
            /\ wire' = [i \in 1..n |-> UntestedPeerFrom(Seed(i))]
            /\ res' = [tag |-> "Running", peers |-> <<>>]

(* One iteration of the loop: extend peers with the working ones, then     *)
(* ut_peers.drain(0..min), which panics when min exceeds the length.       *)
PeerGetLoop ==
    /\ op = "PeerGet"
    /\ res.tag = "Running"
    /\ PeerLoopCondition(res.peers, wire, arg.min)
    /\ op' = op
    /\ arg' = arg
    /\ IF arg.min > Len(wire)
       THEN /\ wire' = wire
            /\ res' = [tag |-> "Panic",
                       peers |-> res.peers \o WorkingPeers(wire, arg.cpus, arg.accepting)]
       ELSE /\ wire' = Drop(wire, arg.min)
            /\ res' = [tag |-> "Running",
                       peers |-> res.peers \o WorkingPeers(wire, arg.cpus, arg.accepting)]

(* After the loop: Err when fewer than min peers were collected, else Ok. *)
PeerGetExit ==
    /\ op = "PeerGet"
    /\ res.tag = "Running"
    /\ ~PeerLoopCondition(res.peers, wire, arg.min)
    /\ op' = op
    /\ arg' = arg
    /\ wire' = wire
    /\ res' = IF Len(res.peers) < arg.min
              THEN [tag |-> "Err", peers |-> FailedToConnect]
              ELSE [tag |-> "Ok", peers |-> res.peers]

(* The call is over: returned or aborted. *)
PeerGetReturn ==
    /\ op = "PeerGet"
    /\ res.tag # "Running"
    /\ op' = "idle"
    /\ arg' = <<>>
    /\ wire' = <<>>
    /\ res' = <<>>

NextPeer ==
    \/ PeerGetCall
    \/ PeerGetLoop
    \/ PeerGetExit
    \/ PeerGetReturn

SpecPeer == Init /\ [][NextPeer]_vars

(* The thread of the call keeps running: the loop and the exit are taken   *)
(* when they can be.                                                       *)
SpecPeerFair == SpecPeer /\ WF_vars(PeerGetLoop) /\ WF_vars(PeerGetExit)

(* Every call of Peer::get ends: it returns or it panics. *)
PeerGetEnds == (op = "PeerGet") ~> (op = "PeerGet" /\ res.tag # "Running")

(***************************************************************************)
(* The message loop of main (main.rs).  wire is what the peer sends, arg   *)
(* the position of the reader in it, res.received the replies decoded so   *)
(* far, res.reply the reply being matched and res.out the writes made on   *)
(* the stream, in order.  op is the position in main: "MainLoop" at the    *)
(* top of the loop, "MainMatch" at the match, "MainPanic" after a panic.   *)
(***************************************************************************)
MaxIncoming == 2

(* first_message: the version message for the first peer. *)
FirstMessage ==
    MessageEncode(MessageNew(Version(Version1), MagicMain, Cmd("Version"))).bytes

(* second_message: the verack message. *)
SecondMessage == MessageEncode(MessageNew(EmptyPayload, MagicMain, Cmd("Verack"))).bytes

(* The pong built with no payload. *)
PongEmpty(reply) == MessageEncode(MessageNew(EmptyPayload, MagicMain, Cmd("Pong"))).bytes

(* pong_msg: Message::new(reply.payload, Magic::Main, Command::Pong), encoded. *)
PongMessage(reply) == MessageEncode(MessageNew(reply.payload, MagicMain, Cmd("Pong"))).bytes

(* Messages a peer may send: version, verack, pings (one on the test       *)
(* network with a declared length of 3), pong, getaddr, an unknown command *)
(* with 3 bytes, and 24 bytes with an unknown magic.                       *)
Incoming ==
    { <<249, 190, 180, 217>> \o Pad(CommandNames[1].str) \o <<102, 0, 0, 0>>
          \o <<1, 2, 3, 4>> \o PayloadEncode(Version(Version1)).bytes,
      VerackWire,
      PingWire,
      <<250, 191, 181, 218>> \o Pad(CommandNames[5].str) \o <<3, 0, 0, 0>>
          \o <<0, 0, 0, 0>> \o <<1, 2, 3, 4, 5, 6, 7, 128>>,
      <<249, 190, 180, 217>> \o Pad(CommandNames[6].str) \o <<8, 0, 0, 0>>
          \o <<140, 130, 12, 128>> \o <<7, 0, 0, 0, 0, 0, 0, 0>>,
      <<249, 190, 180, 217>> \o Pad(CommandNames[8].str) \o <<0, 0, 0, 0>>
          \o EmptyPayloadChecksum,
      UnknownWire,
      <<1, 2, 3, 4>> \o Zeros(20) }

RECURSIVE IncomingStreams(_)
IncomingStreams(n) ==
    IF n = 0 THEN { <<>> }
    ELSE IncomingStreams(n - 1)
         \cup { s \o m : s \in IncomingStreams(n - 1), m \in Incoming }

(* main up to the loop: the version message is written on the stream. *)
MainConnect ==
    /\ op = "idle"
    /\ \E s \in IncomingStreams(MaxIncoming) :
        /\ op' = "MainLoop"
        /\ arg' = 0
        /\ wire' = s
        /\ res' = [received |-> <<>>, reply |-> <<>>, out |-> <<FirstMessage>>]

(* Message::net_decode(&mut stream_reader).expect("Failed to decode") *)
MainRead ==
    /\ op = "MainLoop"
    /\ IF MessageDecode(wire, arg).tag = "Ok"
       THEN /\ op' = "MainMatch"
            /\ arg' = MessageDecode(wire, arg).pos
            /\ res' = [res EXCEPT !.reply = MessageDecode(wire, arg).val,
                                  !.received = Append(@, MessageDecode(wire, arg).val)]
       ELSE /\ op' = "MainPanic"
            /\ arg' = arg
            /\ res' = res
    /\ wire' = wire

(* match reply.header.command: a verack for a version, a pong for a ping,  *)
(* nothing for the others; then the loop starts again.                     *)
MainMatch ==
    /\ op = "MainMatch"
    /\ op' = "MainLoop"
    /\ arg' = arg
    /\ wire' = wire
    /\ res' = IF res.reply.header.command.tag = "Version"
                  THEN [res EXCEPT !.out = Append(@, SecondMessage)]
              ELSE IF res.reply.header.command.tag = "Ping"
                  THEN [res EXCEPT !.out = Append(@, PongMessage(res.reply))]
              ELSE res

(* The process ends with the panic. *)
MainExit ==
    /\ op = "MainPanic"
    /\ op' = "idle"
    /\ arg' = <<>>
    /\ wire' = <<>>
    /\ res' = <<>>

NextMain ==
    \/ MainConnect
    \/ MainRead
    \/ MainMatch
    \/ MainExit

SpecMain == Init /\ [][NextMain]_vars

(***************************************************************************)
(* The properties.  A wire message is a 24-byte header (magic at bytes     *)
(* 1..4, command field at 5..16, length at 17..20, checksum at 21..24)     *)
(* followed by the payload.                                                *)
(***************************************************************************)
KnownMagicWires == { <<249, 190, 180, 217>>, <<250, 191, 181, 218>> }

(* The command field of the header that starts after position p. *)
FieldAt(w, p) == SubSeq(w, p + 5, p + 16)

(* The length the header that starts after position p declares. *)
LengthAt(w, p) == ToNat(Reverse(SubSeq(w, p + 17, p + 20)))

(* A command field whose string, up to the first zero byte, is the name of *)
(* a command.                                                              *)
Recognized(field) ==
    \E i \in 1..Len(CommandNames) : CommandNames[i].str = TakeWhileNonZero(field)

(* A mask, as its 8 little-endian bytes, with a bit outside 0, 1, 2, 3, 6  *)
(* and 10.                                                                 *)
HasUndefinedBit(w) ==
    \/ And16(w[1], 255 - 79) # 0
    \/ And16(w[2], 255 - 4) # 0
    \/ \E i \in 3..8 : w[i] # 0

(* C1: a version payload built from any address, encoded and decoded,      *)
(* equals the original in every field, the timestamp compared in seconds.  *)
C1_VersionRoundTrip ==
    op = "VersionRoundTrip" =>
        /\ res.tag = "Ok"
        /\ VersionMessageEq(res.val, arg)
        /\ res.val.addr_recv.address.port = arg.addr_recv.address.port
        /\ res.val.addr_from.address.port = arg.addr_from.address.port

(* C2: a socket address encodes to its 16 address bytes and then the port  *)
(* in 2 bytes, high byte first, and decoding those 18 bytes returns a      *)
(* socket address with the same port.                                      *)
C2_SocketAddrPort ==
    op = "SocketAddrRoundTrip" =>
        /\ Len(wire) = 18
        /\ SubSeq(wire, 1, 16) = IpAddrEncode(arg.ip).bytes
        /\ SubSeq(wire, 17, 18) = arg.port
        /\ res.tag = "Ok"
        /\ res.val.port = arg.port

(* C3: decoding 4 wire bytes that are neither F9 BE B4 D9 nor FA BF B5 DA  *)
(* returns Err(BadNetworkMagic(Unknown(v))) with v the 32-bit value of all *)
(* four bytes read (in the order of the wire or reversed), so that         *)
(* different unrecognized magics give different v.                         *)
C3_MagicRawValue ==
    op = "MagicDecode" /\ wire \notin KnownMagicWires =>
        /\ res.tag = "Err"
        /\ res.val.kind = "BadNetworkMagic"
        /\ res.val.magic.tag = "Unknown"
        /\ res.val.magic.v \in {wire, Reverse(wire)}

(* C4: ServicesList::net_decode returns Err(InvalidData) for every mask    *)
(* with a bit set outside the positions 0, 1, 2, 3, 6 and 10.              *)
C4_UndefinedBitRejected ==
    op = "ServicesListDecode" /\ HasUndefinedBit(wire) =>
        /\ res.tag = "Err"
        /\ res.val = InvalidData

(* C5: every message Message::net_decode returns as Ok has a header length *)
(* equal to the number of bytes its payload encodes to and a checksum      *)
(* equal to the first 4 bytes of the double SHA-256 of those bytes.        *)
C5_DecodedHeaderInvariant ==
    op \in {"MessageDecode", "MessageDecodeNext"} /\ res.tag = "Ok" =>
        /\ res.val.header.length
              = FromNat(Len(PayloadEncode(res.val.payload).bytes), 4)
        /\ res.val.header.checksum
              = SubSeq(sha256d(PayloadEncode(res.val.payload).bytes), 1, 4)

(* C6: the message Message::new returns has a header length equal to the   *)
(* number of bytes the payload's net_encode writes and a checksum equal to *)
(* the first 4 bytes of SHA256(SHA256(those bytes)), whatever the magic    *)
(* and the command, which it keeps as given.                               *)
C6_NewHeader ==
    op = "MessageNew" =>
        /\ res.header.length = FromNat(Len(PayloadEncode(arg.payload).bytes), 4)
        /\ res.header.checksum
              = SubSeq(sha256d(PayloadEncode(arg.payload).bytes), 1, 4)
        /\ res.header.magic = arg.magic
        /\ res.header.command = arg.command
        /\ res.payload = arg.payload

(* Message::new on an address list of one entry: a header length of 31. *)
C6_Witness ==
    /\ op = "MessageNew"
    /\ arg.payload.kind = "AddrList"
    /\ Len(arg.payload.v) = 1
    /\ res.header.length = FromNat(31, 4)

C8_UnknownCommandVerbatim ==
    /\ op = "HeaderDecode"
       /\ SubSeq(wire, 1, 4) \in KnownMagicWires
       /\ ~Recognized(FieldAt(wire, 0))
       => /\ res.tag = "Ok"
          /\ res.val.command.tag = "Unknown"
    /\ op = "CommandReencode" /\ ~Recognized(FieldAt(wire, 0))
       => /\ res.ok
          /\ res.bytes = FieldAt(wire, 0)

(* C9: an addr message with a count above 100 fails to decode with nothing *)
(* consumed after the count, and no decoded address list has more than 100 *)
(* entries.                                                                *)
C9_AddrListCap ==
    /\ op = "MessageDecode"
       /\ SubSeq(wire, 1, 4) \in KnownMagicWires
       /\ Recognized(FieldAt(wire, 0))
       /\ TakeWhileNonZero(FieldAt(wire, 0)) = CommandToStr(Cmd("Addr"))
       /\ VarIntDecode(wire, 24).tag = "Ok"
       /\ ~WLeq(VarIntDecode(wire, 24).val, FromNat(MaxAddrs, 8))
       => /\ res.tag # "Ok"
          /\ res.pos = VarIntDecode(wire, 24).pos
    /\ op \in {"MessageDecode", "MessageDecodeNext"} /\ res.tag = "Ok"
       => (res.val.payload.kind = "AddrList" => Len(res.val.payload.v) <= MaxAddrs)

(* An addr message with the count 256 and an entry after it: decoding      *)
(* stops after the 3 bytes of the count.                                   *)
C9_Witness ==
    /\ op = "MessageDecode"
    /\ SubSeq(wire, 1, 4) \in KnownMagicWires
    /\ TakeWhileNonZero(FieldAt(wire, 0)) = CommandToStr(Cmd("Addr"))
    /\ Len(wire) > 27
    /\ SubSeq(wire, 25, 27) = <<253, 0, 1>>
    /\ res.tag = "Panic"
    /\ res.pos = 27

(* C10: Message::new with an EmptyPayload gives, for every magic and       *)
(* command, a header length of 0 and the checksum 5D F6 E0 E2, and the     *)
(* message encodes, without a panic, to exactly its 24 header bytes.       *)
C10_EmptyPayloadMessage ==
    /\ op = "MessageNew" /\ arg.payload.kind = "EmptyPayload"
       => /\ res.header.length = FromNat(0, 4)
          /\ res.header.checksum = <<93, 246, 224, 226>>
    /\ op = "MessageEncode" /\ arg.payload.kind = "EmptyPayload"
       => /\ res.ok
          /\ Len(res.bytes) = 24
          /\ res.n = 24

(* C11: a message decoded with the payload EmptyPayload has a header       *)
(* length of 0.                                                            *)
C11_EmptyPayloadLength ==
    op \in {"MessageDecode", "MessageDecodeNext"} /\ res.tag = "Ok" =>
        (res.val.payload.kind = "EmptyPayload"
            => res.val.header.length = FromNat(0, 4))

(* C12: every decoder returns an Err value on a source that holds fewer    *)
(* bytes than the value needs: not Ok, and not a panic.                    *)
C12_ShortSourceIsError ==
    op = "ShortDecode" => res.tag = "Err"

(* The compact form of the protocol for a u64: the value in 1 byte up to   *)
(* 0xFC, else 0xFD, 0xFE or 0xFF and the value in 2, 4 or 8 bytes, least   *)
(* significant byte first.                                                 *)
CompactSize(v) ==
    IF Fits(v, 1) /\ v[8] <= 252 THEN <<v[8]>>
    ELSE IF Fits(v, 2) THEN <<253>> \o Reverse(SubSeq(v, 7, 8))
    ELSE IF Fits(v, 4) THEN <<254>> \o Reverse(SubSeq(v, 5, 8))
    ELSE <<255>> \o Reverse(v)

(* C13: VariableInteger(v).net_encode writes 1, 3, 5 or 9 bytes by the     *)
(* range of v, in the compact form, and returns the number of bytes it     *)
(* wrote.                                                                  *)
C13_VarIntEncodeLength ==
    op = "VarIntRoundTrip" =>
        /\ res.enc.ok
        /\ res.enc.bytes = CompactSize(arg)
        /\ res.enc.n = Len(res.enc.bytes)
        /\ res.enc.n = (IF Fits(arg, 1) /\ arg[8] <= 252 THEN 1
                        ELSE IF Fits(arg, 2) THEN 3
                        ELSE IF Fits(arg, 4) THEN 5
                        ELSE 9)

(* The value 0xFD encoded in 3 bytes. *)
C13_Witness ==
    /\ op = "VarIntRoundTrip"
    /\ arg = FromNat(253, 8)
    /\ res.enc.bytes = <<253, 253, 0>>
    /\ res.enc.n = 3

(* C14: decoding the bytes VariableInteger(v).net_encode wrote returns     *)
(* VariableInteger(v) and consumes exactly those bytes.                    *)
C14_VarIntRoundTrip ==
    op = "VarIntRoundTrip" =>
        /\ res.dec.tag = "Ok"
        /\ res.dec.val = arg
        /\ res.dec.pos = Len(wire)

(* The largest u64 through its 9 bytes. *)
C14_Witness ==
    /\ op = "VarIntRoundTrip"
    /\ arg = <<255, 255, 255, 255, 255, 255, 255, 255>>
    /\ Len(wire) = 9
    /\ res.dec.tag = "Ok"
    /\ res.dec.val = arg

(* C15: a marker followed by a value in the width it announces decodes to  *)
(* that value also when a shorter encoding exists, and encoding the result *)
(* gives the shortest form.                                                *)
C15_VarIntNonMinimal ==
    op = "VarIntDecode" =>
        /\ res.dec.tag = "Ok"
        /\ res.dec.val = arg
        /\ res.dec.pos = Len(wire)
        /\ res.enc.ok
        /\ res.enc.bytes = CompactSize(arg)

(* FD 05 00 decoded to 5 and encoded again as 05. *)
C15_Witness ==
    /\ op = "VarIntDecode"
    /\ wire = <<253, 5, 0>>
    /\ res.dec.tag = "Ok"
    /\ res.dec.val = FromNat(5, 8)
    /\ res.enc.bytes = <<5>>

(* C16: an integer of 1, 2, 4 or 8 bytes is written in as many bytes, the  *)
(* least significant first, and decoding them returns the integer; an      *)
(* array of 2, 4, 16 or 32 bytes is written verbatim and decoding the      *)
(* bytes returns the array.                                                *)
C16_PrimitiveRoundTrip ==
    op = "PrimitiveRoundTrip" =>
        /\ res.enc.ok
        /\ res.enc.n = Len(arg.val)
        /\ Len(res.enc.bytes) = Len(arg.val)
        /\ \A i \in 1..Len(arg.val) :
              res.enc.bytes[i] = (IF arg.kind = "int" THEN arg.val[Len(arg.val) + 1 - i]
                                  ELSE arg.val[i])
        /\ res.dec.tag = "Ok"
        /\ res.dec.val = arg.val
        /\ res.dec.pos = Len(arg.val)

(* The u32 0x01020304 written as 04 03 02 01 and read back. *)
C16_Witness ==
    /\ op = "PrimitiveRoundTrip"
    /\ arg = [kind |-> "int", val |-> <<1, 2, 3, 4>>]
    /\ res.enc.bytes = <<4, 3, 2, 1>>
    /\ res.dec.tag = "Ok"
    /\ res.dec.val = <<1, 2, 3, 4>>

(* C17: Magic::Main is written as F9 BE B4 D9 and Magic::Test as           *)
(* FA BF B5 DA, and decoding the 4 bytes returns the same network.         *)
C17_MagicRoundTrip ==
    op = "MagicRoundTrip" /\ arg.tag \in {"Main", "Test"} =>
        /\ res.enc.ok
        /\ res.enc.n = 4
        /\ res.enc.bytes = (IF arg.tag = "Main" THEN <<249, 190, 180, 217>>
                            ELSE <<250, 191, 181, 218>>)
        /\ res.dec.tag = "Ok"
        /\ res.dec.val = arg
        /\ res.dec.pos = 4

(* Magic::Test through its 4 bytes. *)
C17_Witness ==
    /\ op = "MagicRoundTrip"
    /\ arg = MagicTest
    /\ wire = <<250, 191, 181, 218>>
    /\ res.dec.tag = "Ok"
    /\ res.dec.val = MagicTest

(* The 16 bytes of an IPv4-mapped address: ten of zero, FF FF, 4 octets. *)
IsMapped(b) == SubSeq(b, 1, 12) = Zeros(10) \o <<255, 255>>

(* C18: an IPv4 address is written as ::ffff:a.b.c.d; the decoder returns  *)
(* an IPv4 address exactly for the 16-byte values of that pattern and an   *)
(* IPv6 address for every other, so every IPv4 address and every IPv6      *)
(* address that is not mapped decodes to itself.                           *)
C18_IpAddrRoundTrip ==
    op = "IpAddrRoundTrip" =>
        /\ res.enc.n = 16
        /\ arg.v = 4 => res.enc.bytes = Zeros(10) \o <<255, 255>> \o arg.octets
        /\ res.dec.tag = "Ok"
        /\ res.dec.val.v = 4 <=> IsMapped(wire)
        /\ arg.v = 4 \/ ~IsMapped(wire) => res.dec.val = arg

(* The flags given to add_flag, and 1 or 0 for a flag among them. *)
Added(calls) == { calls[i] : i \in 1..Len(calls) }
Has(calls, f) == IF f \in Added(calls) THEN 1 ELSE 0

(* C19: a ServicesList built by new() and add_flag calls is written as 8   *)
(* bytes, the little-endian u64 with the bit of every flag added (bits 0,  *)
(* 1, 2, 3, 6 and 10; None has no bit): the XOR of the values is their OR. *)
C19_ServicesListEncode ==
    op = "ServicesListEncode" =>
        /\ res.ok
        /\ res.n = 8
        /\ res.bytes = << Has(arg, "Network") + 2 * Has(arg, "GetUTXO")
                            + 4 * Has(arg, "Bloom") + 8 * Has(arg, "Witness")
                            + 64 * Has(arg, "CompactFilters"),
                          4 * Has(arg, "NetworkLimited"),
                          0, 0, 0, 0, 0, 0 >>

(* new() and add_flag(Network), written as 01 00 00 00 00 00 00 00. *)
C19_Witness ==
    /\ op = "ServicesListEncode"
    /\ arg = <<"Network">>
    /\ res.n = 8
    /\ res.bytes = <<1, 0, 0, 0, 0, 0, 0, 0>>

(* C20: every MessageHeader, whatever its magic, command (Unknown(s) for   *)
(* any s included), length and checksum, is written as exactly 24 bytes    *)
(* and 24 is returned: the magic, the command in 12 bytes padded with      *)
(* zeros, the length as a little-endian u32 and the checksum, in order.    *)
C20_HeaderEncode ==
    op = "HeaderEncode" =>
        /\ res.ok
        /\ res.n = 24
        /\ Len(res.bytes) = 24
        /\ SubSeq(res.bytes, 1, 4) = Reverse(MagicBytes(arg.magic))
        /\ \E k \in 0..12 :
              /\ SubSeq(res.bytes, 5, 4 + k) = Utf8(CommandToStr(arg.command))
              /\ SubSeq(res.bytes, 5 + k, 16) = Zeros(12 - k)
        /\ SubSeq(res.bytes, 17, 20) = Reverse(arg.length)
        /\ SubSeq(res.bytes, 21, 24) = arg.checksum

(* C21: a header built by MessageHeader::new with the magic Main or Test,  *)
(* whatever its command, length and checksum, is returned field for field  *)
(* by decoding the 24 bytes of its encoding.                               *)
C21_HeaderRoundTrip ==
    op = "HeaderRoundTrip" =>
        /\ res.enc.ok
        /\ res.dec.tag = "Ok"
        /\ res.dec.val.magic = arg.magic
        /\ res.dec.val.command = arg.command
        /\ res.dec.val.length = arg.length
        /\ res.dec.val.checksum = arg.checksum

(* The payload variant a command is decoded to (the match of              *)
(* Message::net_decode).                                                   *)
VariantOf(c) ==
    IF c.tag = "Version" THEN "Version"
    ELSE IF c.tag \in {"Verack", "SendHeaders", "WTxIdRelay", "GetAddr"} THEN "EmptyPayload"
    ELSE IF c.tag \in {"Ping", "Pong"} THEN "PingPong"
    ELSE IF c.tag = "Addr" THEN "AddrList"
    ELSE IF c.tag = "Inv" THEN "InvVect"
    ELSE IF c.tag = "Unknown" THEN "Dump"
    ELSE "none"

(* == on the payloads of two messages: derived for MessagePayload, with    *)
(* impl PartialEq for VersionMessage on version payloads.                  *)
PayloadEq(a, b) ==
    /\ a.kind = b.kind
    /\ IF a.kind = "Version" THEN VersionMessageEq(a.v, b.v) ELSE a.v = b.v

(* C22: a message built by Message::new under a command that matches its  *)
(* payload is returned, header and payload, by decoding the bytes of its   *)
(* encoding.                                                               *)
C22_MessageRoundTrip ==
    op = "MessageDecodeEncoded" /\ VariantOf(arg.header.command) = arg.payload.kind =>
        /\ res.tag = "Ok"
        /\ res.val.header = arg.header
        /\ PayloadEq(res.val.payload, arg.payload)

(* The identifiers 0, 1, 2, 3, 4, 0x40000001, 0x40000002, 0x40000003. *)
NamedIdentifiers ==
    { <<0, 0, 0, 0>>, <<0, 0, 0, 1>>, <<0, 0, 0, 2>>, <<0, 0, 0, 3>>, <<0, 0, 0, 4>>,
      <<64, 0, 0, 1>>, <<64, 0, 0, 2>>, <<64, 0, 0, 3>> }

(* C23: Inventory::net_decode accepts every identifier: one outside the    *)
(* named 8 gives Unknown with that identifier and the hash, and encoding   *)
(* the item decoded from any 36 bytes writes the same 36 bytes.            *)
C23_InventoryDecode ==
    op = "InventoryDecode" =>
        /\ res.dec.tag = "Ok"
        /\ res.dec.pos = 36
        /\ arg.id \notin NamedIdentifiers =>
              res.dec.val = [kind |-> "Unknown", inv_type |-> arg.id, hash |-> arg.hash]
        /\ res.enc.ok
        /\ res.enc.bytes = wire

(* The number of seeds of the list that accept a connection. *)
Accepting == Cardinality(arg.accepting)

(* C24: Peer::get ends with a Result and never aborts: Err(FailedToConnect) *)
(* when fewer than min seeds accept a connection, Ok with at least min      *)
(* peers otherwise.                                                         *)
C24_PeerGetResult ==
    op = "PeerGet" /\ res.tag # "Running" =>
        IF Accepting < arg.min
        THEN res.tag = "Err" /\ res.peers = FailedToConnect
        ELSE res.tag = "Ok" /\ Len(res.peers) >= arg.min

(* C25: a message decoded successfully from position arg of the stream      *)
(* leaves the stream 24 + header.length bytes further.                      *)
C25_ConsumesDeclaredLength ==
    op \in {"MessageDecode", "MessageDecodeNext"} /\ res.tag = "Ok" =>
        FromNat(res.pos - arg - 24, 4) = res.val.header.length

(* C26: decoding the same 24 header bytes gives the same magic and command *)
(* and leaves the stream at the same position whether the source hands     *)
(* them over in one read or in several shorter ones.                       *)
C26_ReadSplitIndependent ==
    op = "HeaderDecodeSplit" =>
        /\ res.split.tag = res.whole.tag
        /\ res.split.pos = res.whole.pos
        /\ res.split.tag = "Ok" =>
              /\ res.split.val.magic = res.whole.val.magic
              /\ res.split.val.command = res.whole.val.command

(* C27: a ServicesList built by new() and add_flag calls, the empty list   *)
(* and lists holding None included, is returned by decoding the bytes of   *)
(* its encoding.                                                           *)
C27_ServicesListRoundTrip ==
    op = "ServicesListRoundTrip" =>
        /\ res.tag = "Ok"
        /\ res.val = arg

(* C28: a String is returned by decoding the bytes of its encoding, also   *)
(* with chars outside ASCII, and the varint written first is the number of *)
(* bytes written after it.                                                 *)
C28_StringRoundTrip ==
    op = "StringRoundTrip" =>
        /\ res.enc.ok
        /\ res.enc.bytes # <<>>
        /\ <<res.enc.bytes[1]>> = CompactSize(FromNat(Len(res.enc.bytes) - 1, 8))
        /\ res.dec.tag = "Ok"
        /\ res.dec.val = arg
        /\ res.dec.pos = Len(wire)

(* C29: a TimestampedNetAddress is written as the low 32 bits of its       *)
(* seconds, least significant byte first, and then its NetAddress;         *)
(* decoding the bytes returns the same NetAddress and the timestamp modulo *)
(* 2^32 seconds, which is the timestamp itself below 2^32.                 *)
C29_TimestampedRoundTrip ==
    op = "TimestampedRoundTrip" =>
        /\ res.enc.ok
        /\ res.enc.bytes = Reverse(SubSeq(arg.timestamp.secs, 5, 8))
                             \o NetAddressEncode(arg.netaddress).bytes
        /\ res.dec.tag = "Ok"
        /\ res.dec.val.netaddress = arg.netaddress
        /\ res.dec.val.timestamp.secs = Zeros(4) \o SubSeq(arg.timestamp.secs, 5, 8)
        /\ res.dec.val.timestamp.nanos = 0

(* The pong for a nonce of 8 bytes: the magic of the main network, "pong", *)
(* the length 8, the first 4 bytes of the double SHA-256 of the nonce as   *)
(* written, and the nonce, least significant byte first.                   *)
ExpectedPong(nonce) ==
    <<249, 190, 180, 217>> \o <<112, 111, 110, 103, 0, 0, 0, 0, 0, 0, 0, 0>>
    \o <<8, 0, 0, 0>> \o SubSeq(sha256d(Reverse(nonce)), 1, 4) \o Reverse(nonce)

(* The writes that answer the replies received: a verack for each version, *)
(* a pong with its nonce for each ping, in order.                          *)
RECURSIVE Answers(_)
Answers(received) ==
    IF received = <<>> THEN <<>>
    ELSE (IF Head(received).header.command.tag = "Version" THEN <<VerackWire>>
          ELSE IF Head(received).header.command.tag = "Ping"
              THEN <<ExpectedPong(Head(received).payload.v)>>
          ELSE <<>>)
         \o Answers(Tail(received))

====
